---- MODULE Spec2Model ----
(***************************************************************************)
(* Verification model of the hbemfun boundary element integration core:    *)
(* the MEX gateway (mexFunction, IntegrateGreenUser), the element driver,  *)
(* the 2D singular integrator bemintsing2d and the 3D regular integrator   *)
(* bemintreg3ddiag (dense mode and subset-selection mode).                 *)
(*                                                                         *)
(* The output matrices are kept symbolically: a buffer is the bag of the   *)
(* "+=" / "-=" statements executed on it.  One entry                       *)
(*   [slot, sgn, ker, idx, at, elt, xi, node]                              *)
(* stands for   buf[slot] += sgn * H[xi]*M[nEltColl*xi+node]*Jac[xi]       *)
(*                               * ker[idx]                                *)
(* executed for element elt while the kernel buffer ker held the values    *)
(* computed for the evaluation tagged at.  The number stored in a slot is  *)
(* the sum of its entries, so two buffers hold the same numbers for every  *)
(* kernel and every quadrature rule iff their bags of entries agree.       *)
(***************************************************************************)
EXTENDS Integers, Sequences, FiniteSets, Bags, TLC

\* ------------------------------------------------------------------ bounds
MaxElt     == 2     \* elements of the mesh
MaxEltColl == 2     \* collocation nodes of one element
MaxXi      == 2     \* quadrature points of an element
MaxGrSet   == 2     \* Green's function sets (frequencies, times, cases)
MaxSel     == 2     \* collocation points in the selected rows, resp. columns
MaxWave    == 3     \* wavenumbers of a periodic problem
MaxGridLen == 3     \* points of a grid zs, r, z of a 'user' kernel
MaxCalls   == 3     \* calls of BEMMAT in one session

\* unsigned int is 32 bits wide: index arithmetic wraps modulo 2^32.  An
\* unsigned value is kept as its two 16 bit halves <<high, low>>; since
\* reduction modulo 2^32 commutes with +, - and *, reducing the exact value of
\* an index expression once gives what the stepwise wrapping computes.
Half == 65536

U32(x) == << (x \div Half) % Half, x % Half >>

\* --------------------------------------------------------------- variables
VARIABLES
  \* inputs of the call, fixed during one run
  nlhs, nrhs, probDim, probAxi, nugComp, nGrSet, argCmplx,
  nElt, nEltColl, nTotalColl, nXi, sel,
  \* mexFunction / IntegrateGreenUser
  pc, TmatOut, UmatOut, ugCmplx, tgCmplx, tg0Cmplx, nColDof, nDof,
  exception, plhs, caller,
  \* driver cursor and the arguments of the current integrator call
  iElt, iColl, EltCollIndex, RegularColl,
  \* locals of the running integrator
  sColDof, iXi, Xdiff, Zdiff, gr, rot,
  \* locals of bemintreg3ddiag in subset-selection mode
  iuniquescolli, nuniquescollicumul,
  \* output buffers
  URe, UIm, TRe, TIm,
  \* the arguments prhs of the call: kind of each of the first arguments, the
  \* kernel name, the kernel parameters
  prhsKind, green, paramsOk, grids, ugdim, sgdim, sg0dim, probPeriodic,
  \* locals of mexFunction and the arrays created for plhs[0], plhs[1]
  Cache, getCache, greenPos, sArg, outU, outT,
  \* file-scope statics of the gateway: the cached mesh
  CacheValid, Nod, Elt, TypeID, CollPoints,
  \* history: number of the call, the statics when it began, the call whose
  \* mesh load ran to its end, the statics handed to the Integrate routine,
  \* whether a freed array was freed again
  nCall, before, loadDone, passed, freedTwice,
  \* checklicense.cpp: its two statics, the clock read by time(0), and what
  \* the most recent call of checklicense did
  licenseStatus, lastVerified, now, lastCall,
  \* boundaryrec3d.cpp: the receivers Rec and the caller's array boundaryRec;
  \* the element nodes, the length diag (squared) and the distances found by
  \* the most recent call, and the receivers found near an element so far
  Rec, boundaryRec, rec3d,
  \* the mesh load of mexFunction: the type column of Elt, the catalogue
  \* TypeID and the counts found by BemRegularColl; the static tables built
  \* from them
  loaded, cached,
  \* the index arithmetic of an accumulation statement: the operands and the
  \* index of the statement executed last
  flat

inputs  == <<nlhs, nrhs, probDim, probAxi, nugComp, nGrSet, argCmplx,
             nElt, nEltColl, nTotalColl, nXi, sel>>
gateway == <<TmatOut, UmatOut, ugCmplx, tgCmplx, tg0Cmplx, nColDof, nDof,
             plhs, caller>>
cursor  == <<iElt, iColl, EltCollIndex, RegularColl>>
locals  == <<sColDof, iXi, Xdiff, Zdiff, gr, rot>>
sublocals == <<iuniquescolli, nuniquescollicumul>>
buffers == <<URe, UIm, TRe, TIm>>
args    == <<prhsKind, green, paramsOk, grids, ugdim, sgdim, sg0dim,
             probPeriodic>>
mexlocals == <<Cache, getCache, greenPos, sArg, outU, outT>>
statics == <<CacheValid, Nod, Elt, TypeID, CollPoints>>
history == <<nCall, before, loadDone, passed, freedTwice>>
session == <<args, mexlocals, statics, history>>
license == <<licenseStatus, lastVerified, now, lastCall>>
receivers == <<Rec, boundaryRec, rec3d>>
tables == <<loaded, cached>>
modules == <<license, receivers, tables, flat>>
vars    == <<modules, inputs, pc, exception, gateway, cursor, locals, sublocals,
             buffers, session>>

\* "no value" of an array or of a kernel buffer not yet filled
None == <<>>

\* no exception thrown
NoMsg == ""

\* plhs before any array is created; what a caller without outputs holds
NoOutputs == [U |-> FALSE, T |-> FALSE]

\* s not passed: the selection arguments of the integrators are not read
NoSelection == [spassed |-> FALSE]

\* the messages of the throw statements
TooFewMsg == "Not enough input arguments."

TooManyMsg == "Too many output arguments."

UgDimMsg == "The first dimension of input argument 'ug' is not allowed."

MemoryMsg == "Out of memory."

CoincideMsg ==
  "An integration point coincides with the collocation point for singular integration."

WrongNumberMsg == "Wrong number of input arguments."

TooManyInMsg == "Too many input arguments."

SNumericMsg == "Input argument 's' must be numeric."

NotSupportedMsg == "Currently not supported..."

NotCachedMsg == "Mesh attributes are not cached!"

\* ------------------------------------------------------------ input domain
\* Argument counts: 2 is too few for any call form, 10 is the documented
\* BEMMAT(nod,elt,typ,'user',zs,r,z,ug,sg,sg0).
NrhsSet == {2, 10}
NlhsSet == {1, 2, 3}

\* First dimension of ug as the caller may pass it (1, 4, 5, 9 are the
\* documented ones, 2 stands for any other value).
NugComps == {1, 2, 4, 5, 9}

\* Whether ug, sg and sg0 are complex: the combinations the built-in kernel
\* families use, and a real sg with a complex sg0.
FlagCombos == { <<FALSE, FALSE, FALSE>>, <<TRUE, TRUE, FALSE>>,
                <<TRUE, TRUE, TRUE>>, <<FALSE, FALSE, TRUE>> }

\* Offsets <<Xdiff, Zdiff>> quadrature point - collocation point seen by
\* bemintsing2d: coincident, on the horizontal through the point, on the
\* vertical through the point, off both.
OffsetSet == { <<0, 0>>, <<-1, 0>>, <<0, 1>>, <<1, 1>> }

\* The mesh: an open chain of elements, element e carrying the collocation
\* points e, e+1, ..., e+nEltColl-1 (neighbours share their end points).
MeshTotalColl(nE, nEC) == nE + nEC - 1

MeshEltCollIndex(nEC, e) == [k \in 0..(nEC - 1) |-> e + k]

\* A point is singular for an element iff it is one of the element's
\* collocation nodes, regular (RegularColl = 1) otherwise.
MeshRegularColl(nE, nEC, e) ==
  [p \in 0..(MeshTotalColl(nE, nEC) - 1) |->
     IF \E k \in 0..(nEC - 1) : MeshEltCollIndex(nEC, e)[k] = p
     THEN 0 ELSE 1]

\* ------------------------------------------------------- pure helper code
\* Variant of sign: the sign of zero is zero.
signum(a) == IF a = 0 THEN 0 ELSE (IF a > 0 THEN 1 ELSE -1)

\* inline double sign(const double& a)
sign(a) == IF a = 0 THEN 1 ELSE (IF a > 0 THEN 1 ELSE -1)

fabs(a) == IF a < 0 THEN -a ELSE a

\* IntegrateGreenUser: the first dimension of ug allowed for the problem
UgCompAllowed(dim, axi, n) ==
  IF dim = 2
  THEN /\ (~axi => n \in {1, 4, 9})
       /\ (axi => n = 5)
  ELSE IF dim = 3 THEN n = 5 ELSE TRUE

\* IntegrateGreenUser: unsigned int nColDof; followed by five ifs.  When no
\* line applies the variable is read uninitialised: any value may be seen.
UserColDofValues(n, axi) ==
  IF n = 9 THEN {3}
  ELSE IF n = 5 /\ axi THEN {2}
  ELSE IF n = 5 /\ ~axi THEN {3}
  ELSE IF n = 4 THEN {2}
  ELSE IF n = 1 THEN {1}
  ELSE 0..3

\* Variant: three degrees of freedom per point whatever nugComp is.
AlwaysThreeDof(n) == {3}

\* bemintsing2d: unsigned int nColDof; followed by three ifs.  For any other
\* nugComp the local is read uninitialised: any value may be seen.
Sing2dColDofValues(n) ==
  IF n = 9 THEN {3}
  ELSE IF n = 4 THEN {2}
  ELSE IF n = 1 THEN {1}
  ELSE 0..3

\* Variant: the coincidence test never fires.
NoCoincidence(xiR, xiZ) == FALSE

\* bemintsing2d: if ((xiR==0)&(xiZ==0)) throw(...)
Coincides(xiR, xiZ) == (xiR = 0) /\ (xiZ = 0)

\* The accumulation statements of one (iEltColl, iGrSet) pass, as the
\* triples <<component index of the kernel array, column offset, row offset>>
\* of the statement   X[ind0+nDof*(colBeg+col)+rowBeg+row] += sumutil*K[n*iGrSet+idx].
Terms1 == { <<0, 0, 0>> }

Terms4 == { <<0, 0, 0>>, <<1, 1, 0>>, <<2, 0, 1>>, <<3, 1, 1>> }

Terms9 == { <<0, 0, 0>>, <<1, 1, 0>>, <<2, 2, 0>>,
            <<3, 0, 1>>, <<4, 1, 1>>, <<5, 2, 1>>,
            <<6, 0, 2>>, <<7, 1, 2>>, <<8, 2, 2>> }

\* Variant: only the statements of the diagonal components are executed.
DiagonalTermsOnly(n) ==
  { t \in (IF n = 1 THEN Terms1 ELSE IF n = 4 THEN Terms4
           ELSE IF n = 9 THEN Terms9 ELSE {}) : t[2] = t[3] }

\* bemintsing2d: if (nugComp==1) ... else if (nugComp==4) ... else if (nugComp==9)
Sing2dTerms(n) ==
  IF n = 1 THEN Terms1 ELSE IF n = 4 THEN Terms4 ELSE IF n = 9 THEN Terms9 ELSE {}

\* ind0+nDof*(colBeg+col)+rowBeg+row in unsigned int arithmetic
DenseSlot(nD, ind0, colBeg, col, rowBeg, row) ==
  U32(ind0 + nD * (colBeg + col) + rowBeg + row)

\* Variant: the Green set stride is one column instead of one matrix.
ColumnStrideInd0(nD, g) == nD * g

\* unsigned int ind0 = nDof*nDof*iGrSet;
DenseInd0(nD, g) == nD * nD * g

\* One executed accumulation statement.
Entry(slot, sgn, ker, idx, at, node) ==
  [slot |-> slot, sgn |-> sgn, ker |-> ker, idx |-> idx, at |-> at,
   elt |-> iElt, xi |-> iXi, node |-> node]

\* ---------------------------------------------------- the arguments prhs
\* What mexFunction asks of an argument: "real" is a non-empty full real
\* matrix, "empty" an empty one, "sparse" a sparse matrix, "cell" a cell
\* array, "char" a string; "none" is a position at or beyond nrhs.
mxIsChar(k) == k = "char"

mxIsNumeric(k) == k \in {"real", "empty", "sparse"}

mxIsSparse(k) == k = "sparse"

mxIsEmpty(k) == k = "empty"

\* The call forms, as the kinds of the first six arguments (kernel
\* parameters are full real arrays).  With a mesh: BEMMAT(nod,elt,typ,green,...),
\* BEMMAT(nod,elt,typ,s,green,...), BEMMAT(nod,elt,typ,[],st,green,...), the
\* latter with a non-empty su, the second with a sparse s, a sparse nod, a
\* sparse elt, a typ that is no cell array.  On the cached mesh:
\* BEMMAT(green,...), BEMMAT(s,green,...), the same with a sparse s,
\* BEMMAT([],st,green,...).
Form ==
  [ plain   |-> <<"real", "real", "cell", "char", "real", "real">>,
    sel     |-> <<"real", "real", "cell", "real", "char", "real">>,
    sust    |-> <<"real", "real", "cell", "empty", "real", "char">>,
    sugiven |-> <<"real", "real", "cell", "real", "real", "char">>,
    sparses |-> <<"real", "real", "cell", "sparse", "char", "real">>,
    badnod  |-> <<"sparse", "real", "cell", "char", "real", "real">>,
    badelt  |-> <<"real", "sparse", "cell", "char", "real", "real">>,
    badtyp  |-> <<"real", "real", "real", "char", "real", "real">>,
    cached  |-> <<"char", "real", "real", "real", "real", "real">>,
    cachedsel |-> <<"real", "char", "real", "real", "real", "real">>,
    cachedsparses |-> <<"sparse", "char", "real", "real", "real", "real">>,
    cachedsust |-> <<"empty", "real", "char", "real", "real", "real">> ]

\* the first six of the nrhs arguments of a call of the given form
Kinds(form, n) == [i \in 1..6 |-> IF i <= n THEN form[i] ELSE "none"]

\* 0-based position of the kernel name in a call form
NamePos(form) == (CHOOSE i \in 1..6 : form[i] = "char") - 1

\* --------------------------------------------------------- the mesh cache
\* A static array: the null pointer, a live allocation, or a pointer to
\* memory that delete [] has released; gen is the call that filled it.
NullArray == [st |-> "null", gen |-> 0]

\* if (X!=0) delete [] X;  resp.  delete [] X;  (a no-op on a null pointer):
\* the pointer keeps its value
Deleted(x) == IF x.st = "null" THEN x ELSE [st |-> "freed", gen |-> x.gen]

\* X=new(nothrow) ...[n] succeeded and was filled by the running call
Fresh(n) == [st |-> "live", gen |-> n]

\* what the Integrate routines are handed
Handed == [Nod |-> Nod, Elt |-> Elt, TypeID |-> TypeID, CollPoints |-> CollPoints]

\* no array created for an output yet
NoArray == [made |-> FALSE, dims |-> <<>>, cmplx |-> FALSE]

\* No call of checklicense yet.
NoCall == [called |-> FALSE, at |-> 0, integrity |-> FALSE, license |-> FALSE,
           intact |-> FALSE, statusBefore |-> -1, verifiedBefore |-> 0]

\* static int licenseStatus = -1; static time_t lastVerified = 0;
LicenseLoaded ==
  /\ licenseStatus = -1 /\ lastVerified = 0 /\ now = 0 /\ lastCall = NoCall

\* the statics of the other translation units after the library is loaded
ModulesLoaded ==
  /\ LicenseLoaded
  /\ Rec = <<>> /\ boundaryRec = <<>> /\ rec3d = None
  /\ loaded = None /\ cached = None
  /\ flat = None

\* the library has just been loaded: static bool CacheValid=false; and null
\* pointers
LibraryLoaded ==
  /\ CacheValid = FALSE
  /\ Nod = NullArray /\ Elt = NullArray /\ TypeID = NullArray
  /\ CollPoints = NullArray
  /\ nCall = 1 /\ loadDone = 0
  /\ passed = [Nod |-> NullArray, Elt |-> NullArray, TypeID |-> NullArray,
               CollPoints |-> NullArray]
  /\ freedTwice = FALSE
  /\ before = <<FALSE, NullArray, NullArray, NullArray, NullArray>>

\* the number of wavenumbers ky of a periodic problem
nWave == MaxWave

\* mexFunction's locals before its first statement
MexEntry ==
  /\ Cache = FALSE /\ getCache = FALSE /\ greenPos = 3
  /\ sArg = [ms |-> 0, ns |-> 0, s |-> "null"]
  /\ outU = NoArray /\ outT = NoArray

\* sg, sg0 have 2, 6, 10, 18 components for 1, 4, 5, 9 components of ug
\* (any other nugComp is rejected before it is used)
NtgComp(n) ==
  IF n = 1 THEN 2 ELSE IF n = 4 THEN 6 ELSE IF n = 5 THEN 10
  ELSE IF n = 9 THEN 18 ELSE 0

\* ug, sg, sg0 of a consistent 'user' call on grids of one point each
ConsistentUser ==
  /\ green = "user" /\ paramsOk = TRUE /\ probPeriodic = FALSE
  /\ grids = [zs |-> <<0>>, r |-> <<0>>, z |-> <<0>>]
  /\ ugdim = <<nugComp, 1, 1, 1, nGrSet>>
  /\ sgdim = <<NtgComp(nugComp), 1, 1, 1, nGrSet>>
  /\ sg0dim = <<NtgComp(nugComp), 1, 1, 1, nGrSet>>

\* ------------------------------------------------------------------- Init
Init ==
  /\ nlhs \in NlhsSet
  /\ nrhs \in NrhsSet
  /\ probDim \in {2, 3}
  /\ probAxi \in BOOLEAN
  /\ (probDim = 3 => ~probAxi)
  /\ nugComp \in NugComps
  /\ nGrSet = MaxGrSet
  /\ argCmplx \in FlagCombos
  /\ nElt \in 1..MaxElt
  /\ nEltColl \in 1..MaxEltColl
  /\ nTotalColl = MeshTotalColl(nElt, nEltColl)
  /\ nXi = MaxXi
  /\ sel = NoSelection
  /\ iuniquescolli = 0 /\ nuniquescollicumul = 0
  /\ pc = "mex"
  /\ TmatOut = FALSE /\ UmatOut = TRUE
  /\ ugCmplx = FALSE /\ tgCmplx = FALSE /\ tg0Cmplx = FALSE
  /\ nColDof = 0 /\ nDof = 0
  /\ exception = NoMsg /\ plhs = NoOutputs
  /\ caller = [status |-> "running", msg |-> NoMsg, outputs |-> NoOutputs]
  /\ iElt = 0 /\ iColl = 0 /\ EltCollIndex = None /\ RegularColl = None
  /\ sColDof = 0 /\ iXi = 0 /\ Xdiff = 0 /\ Zdiff = 0
  /\ gr = None /\ rot = None
  /\ URe = EmptyBag /\ UIm = EmptyBag /\ TRe = EmptyBag /\ TIm = EmptyBag
  /\ LibraryLoaded /\ ModulesLoaded /\ MexEntry /\ ConsistentUser
  /\ prhsKind = Kinds(Form.plain, nrhs)

\* throw("...") : control leaves every frame up to mexFunction's catch
Throw(msg) ==
  /\ exception' = msg
  /\ pc' = "catch"

\* ------------------------------------------------------------ mexFunction
\* Entry of the try block: the two argument count checks, then TmatOut.
MexValidate ==
  /\ pc = "mex"
  /\ IF nrhs < 3
     THEN Throw(TooFewMsg) /\ UNCHANGED gateway
     ELSE IF nlhs > 2
     THEN Throw(TooManyMsg) /\ UNCHANGED gateway
     ELSE /\ TmatOut' = (nlhs > 1)
          /\ pc' = "mex_form"
          /\ UNCHANGED <<exception, UmatOut, ugCmplx, tgCmplx, tg0Cmplx,
                         nColDof, nDof, plhs, caller>>
  /\ UNCHANGED <<modules, session, inputs, sublocals, cursor, locals, buffers>>

\* The end of the try block is reached: the outputs go to the caller.
MexReturn ==
  /\ pc = "mex_return"
  /\ pc' = "done"
  /\ caller' = [status |-> "returned", msg |-> NoMsg, outputs |-> plhs]
  /\ UNCHANGED <<modules, session, inputs, sublocals, exception, TmatOut, UmatOut, ugCmplx, tgCmplx,
                 tg0Cmplx, nColDof, nDof, plhs, cursor, locals, buffers>>

\* Variant: the handler swallows the exception and returns normally.
MexCatchReturns ==
  /\ pc = "catch"
  /\ pc' = "done"
  /\ caller' = [status |-> "returned", msg |-> NoMsg, outputs |-> plhs]
  /\ UNCHANGED <<modules, session, inputs, sublocals, exception, TmatOut, UmatOut, ugCmplx, tgCmplx,
                 tg0Cmplx, nColDof, nDof, plhs, cursor, locals, buffers>>

\* catch (const char* exception) { mexErrMsgTxt(exception); }
\* mexErrMsgTxt does not return: the caller gets the message and no output.
MexCatch ==
  /\ pc = "catch"
  /\ pc' = "aborted"
  /\ caller' = [status |-> "error", msg |-> exception, outputs |-> NoOutputs]
  /\ plhs' = NoOutputs
  /\ UNCHANGED <<modules, session, inputs, sublocals, exception, TmatOut, UmatOut, ugCmplx, tgCmplx,
                 tg0Cmplx, nColDof, nDof, cursor, locals, buffers>>

\* The checks of the argument s: numeric, not sparse.
SelectionError(k) ==
  IF ~mxIsNumeric(k) THEN SNumericMsg
  ELSE IF mxIsSparse(k) THEN "Input argument 's' must not be sparse." ELSE NoMsg

\* ms=mxGetM(..); ns=mxGetN(..); s=mxGetPr(..);
\* A non-empty s has MaxSel rows and MaxSel+1 columns; an empty one has no
\* data pointer.
SelectionOf(k) ==
  IF k = "real" THEN [ms |-> MaxSel, ns |-> MaxSel + 1, s |-> "data"]
  ELSE [ms |-> 0, ns |-> 0, s |-> "null"]

\* Cache, getCache, and the three tests for a string among the first three
\* arguments: a string there makes the call use the cached mesh.
MexForm ==
  /\ pc = "mex_form"
  /\ LET c0 == mxIsChar(prhsKind[1])
         c1 == mxIsChar(prhsKind[2])
         c2 == mxIsChar(prhsKind[3])
         err1 == IF c1 THEN SelectionError(prhsKind[1]) ELSE NoMsg
         err2 == IF ~c2 THEN NoMsg
                 ELSE IF ~mxIsEmpty(prhsKind[1]) THEN NotSupportedMsg
                 ELSE SelectionError(prhsKind[2])
         err == IF err1 # NoMsg THEN err1 ELSE err2
         second == c2 /\ err1 = NoMsg
     IN /\ Cache' = (nrhs = 3 /\ ~c0)
        /\ getCache' = (c0 \/ c1 \/ c2)
        /\ UmatOut' = ~second
        /\ greenPos' = (IF second THEN 2 ELSE IF c1 THEN 1 ELSE IF c0 THEN 0 ELSE 3)
        /\ sArg' = (IF second /\ err2 = NoMsg THEN SelectionOf(prhsKind[2])
                    ELSE IF c1 /\ err1 = NoMsg THEN SelectionOf(prhsKind[1])
                    ELSE sArg)
        /\ IF err # NoMsg
           THEN Throw(err)
           ELSE /\ pc' = (IF getCache' THEN "mex_cached" ELSE "load_nod")
                /\ UNCHANGED exception
  /\ UNCHANGED <<modules, inputs, args, statics, history, cursor, locals, sublocals,
                 buffers, TmatOut, ugCmplx, tgCmplx, tg0Cmplx, nColDof, nDof,
                 plhs, caller, outU, outT>>

\* the checks of nod, elt: numeric, not sparse, the number of columns
MeshArgError(k, name, columns) ==
  IF ~mxIsNumeric(k) THEN "Input argument '" \o name \o "' must be numeric."
  ELSE IF mxIsSparse(k) THEN "Input argument '" \o name \o "' must not be sparse."
  ELSE IF mxIsEmpty(k) THEN "Input argument '" \o name \o "' should have " \o columns
  ELSE NoMsg

\* if (getCache==false) { CacheValid=true; ... nod: the checks, then
\* delete [] Nod; Nodtest=new(nothrow) double[4*nNod]; if (Nodtest==0) throw;
\* ...; Nod=Nodtest;  On a failed allocation Nod still points to the memory
\* just released.  Releasing released memory is undefined: the process may
\* die there.
LoadNod ==
  /\ pc = "load_nod"
  /\ CacheValid' = TRUE
  /\ IF MeshArgError(prhsKind[1], "nod", "4 columns.") # NoMsg
     THEN /\ Throw(MeshArgError(prhsKind[1], "nod", "4 columns."))
          /\ UNCHANGED <<Nod, freedTwice>>
     ELSE /\ freedTwice' = (freedTwice \/ Nod.st = "freed")
          /\ \/ /\ Nod' = Deleted(Nod)
                /\ Throw(MemoryMsg)
             \/ /\ Nod' = Fresh(nCall)
                /\ pc' = "load_elt"
                /\ UNCHANGED exception
             \/ /\ Nod.st = "freed"
                /\ pc' = "crashed"
                /\ UNCHANGED <<Nod, exception>>
  /\ UNCHANGED <<modules, inputs, args, mexlocals, gateway, cursor, locals, sublocals,
                 buffers, Elt, TypeID, CollPoints, nCall, before, loadDone,
                 passed>>

\* elt: the checks, then delete [] Elt; Elttest=new(nothrow) ...;
\* if (Elttest==0) throw; ...; Elt=Elttest;
LoadElt ==
  /\ pc = "load_elt"
  /\ IF MeshArgError(prhsKind[2], "elt", "at least 3 columns.") # NoMsg
     THEN /\ Throw(MeshArgError(prhsKind[2], "elt", "at least 3 columns."))
          /\ UNCHANGED <<Elt, freedTwice>>
     ELSE /\ freedTwice' = (freedTwice \/ Elt.st = "freed")
          /\ \/ /\ Elt' = Deleted(Elt)
                /\ Throw(MemoryMsg)
             \/ /\ Elt' = Fresh(nCall)
                /\ pc' = "load_typ"
                /\ UNCHANGED exception
             \/ /\ Elt.st = "freed"
                /\ pc' = "crashed"
                /\ UNCHANGED <<Elt, exception>>
  /\ UNCHANGED <<modules, inputs, args, mexlocals, gateway, cursor, locals, sublocals,
                 buffers, CacheValid, Nod, TypeID, CollPoints, nCall, before,
                 loadDone, passed>>

\* typ: two or three columns, a cell array; then delete [] TypeID; TypeID=new(nothrow) ...;
\* if (TypeID==0) throw; (likewise nKeyOpt, TypeName, TypeKeyOpts), then the
\* checks of every row of typ.
LoadTyp ==
  /\ pc = "load_typ"
  /\ IF mxIsEmpty(prhsKind[3])
     THEN /\ Throw("Input argument 'typ' should have 2 or 3 columns.")
          /\ UNCHANGED TypeID
     ELSE IF prhsKind[3] # "cell"
     THEN /\ Throw("Input argument 'typ' should be a cell array.")
          /\ UNCHANGED TypeID
     ELSE \/ /\ TypeID' = NullArray
             /\ Throw(MemoryMsg)
          \/ /\ TypeID' = Fresh(nCall)
             /\ Throw("Type ID should be numeric.")
          \/ /\ TypeID' = Fresh(nCall)
             /\ pc' = "load_rest"
             /\ UNCHANGED exception
  /\ UNCHANGED <<modules, inputs, args, mexlocals, gateway, cursor, locals, sublocals,
                 buffers, CacheValid, Nod, Elt, CollPoints, history>>

\* The collocation points and the element tables: delete [] X;
\* X=new(nothrow) ...; if (X==0) throw("Out of memory."); for each of them.
\* The end of the block is the end of the mesh load.
LoadRest ==
  /\ pc = "load_rest"
  /\ \/ /\ CollPoints' = NullArray
        /\ Throw(MemoryMsg)
        /\ UNCHANGED loadDone
     \/ /\ CollPoints' = Fresh(nCall)
        /\ loadDone' = nCall
        /\ pc' = "mex_cached"
        /\ UNCHANGED exception
  /\ UNCHANGED <<modules, inputs, args, mexlocals, gateway, cursor, locals, sublocals,
                 buffers, CacheValid, Nod, Elt, TypeID, nCall, before, passed,
                 freedTwice>>

\* Variant: a call on the cache is let through whatever CacheValid is.
CacheAlwaysValid(valid) == TRUE

\* the test CacheValid==false of a call on the cache
CacheUsable(valid) == valid

\* if (getCache==true) { if (CacheValid==false) throw("Mesh attributes are
\* not cached!"); }
MexCacheCheck ==
  /\ pc = "mex_cached"
  /\ IF getCache /\ ~CacheUsable(CacheValid)
     THEN Throw(NotCachedMsg)
     ELSE pc' = "mex_s" /\ UNCHANGED exception
  /\ UNCHANGED <<modules, inputs, session, gateway, cursor, locals, sublocals, buffers>>

\* if (Cache==false && getCache==false): is the fourth argument the kernel
\* name, or s, or an empty su followed by st.
MexSelection ==
  /\ pc = "mex_s"
  /\ IF Cache \/ getCache \/ mxIsChar(prhsKind[4])
     THEN /\ pc' = "mex_green"
          /\ UNCHANGED <<exception, greenPos, sArg, UmatOut>>
     ELSE LET two == ~mxIsChar(prhsKind[5]) /\ nrhs >= 5
                    /\ SelectionError(prhsKind[4]) = NoMsg
              err1 == IF nrhs < 5 THEN TooFewMsg
                      ELSE SelectionError(prhsKind[4])
              err2 == IF ~two THEN NoMsg
                      ELSE IF nrhs < 6 THEN TooFewMsg
                      ELSE IF ~mxIsEmpty(prhsKind[4]) THEN NotSupportedMsg
                      ELSE SelectionError(prhsKind[5])
              err == IF err1 # NoMsg THEN err1 ELSE err2
          IN /\ greenPos' = (IF two THEN 5 ELSE 4)
             /\ UmatOut' = ~two
             /\ sArg' = (IF two /\ err2 = NoMsg THEN SelectionOf(prhsKind[5])
                         ELSE IF err1 = NoMsg THEN SelectionOf(prhsKind[4])
                         ELSE sArg)
             /\ IF err # NoMsg
                THEN Throw(err)
                ELSE pc' = "mex_green" /\ UNCHANGED exception
  /\ UNCHANGED <<modules, inputs, args, statics, history, cursor, locals, sublocals,
                 buffers, TmatOut, ugCmplx, tgCmplx, tg0Cmplx, nColDof, nDof,
                 plhs, caller, Cache, getCache, outU, outT>>

\* the kernel names of the strcasecmp chain
Families == {"user", "fsgreenf", "fsgreen2d_inplane", "fsgreen2d_inplane0",
             "fsgreen2d_outofplane", "fsgreen2d_outofplane0", "fsgreen3d",
             "fsgreen3d0", "fsgreen3dt"}

\* if (Cache==false): the kernel name must be a string and a known one; the
\* Integrate routine of the kernel gets the static mesh arrays.
MexDispatch ==
  /\ pc = "mex_green"
  /\ IF Cache
     THEN pc' = "mex_return" /\ UNCHANGED <<exception, passed>>
     ELSE IF ~mxIsChar(prhsKind[greenPos + 1])
     THEN Throw("Input argument 'green' must be a string.") /\ UNCHANGED passed
     ELSE IF green \notin Families
     THEN Throw("Unknown fundamental solution type for input argument 'green'.") /\ UNCHANGED passed
     ELSE /\ passed' = Handed
          /\ pc' = (IF green = "user" THEN "integrate" ELSE "fs_green")
          /\ UNCHANGED exception
  /\ UNCHANGED <<modules, inputs, args, mexlocals, statics, gateway, cursor, locals,
                 sublocals, buffers, nCall, before, loadDone, freedTwice>>

\* ------------------------------------------------------ IntegrateGreenUser
\* Variant: equal neighbours are let through.
NonDecreasing(g) == \A k \in 2..Len(g) : g[k - 1] <= g[k]

\* for (k=1; k<n; k++) if (!(g[k-1]<g[k])) throw(...): the grid passes iff
\* every point is larger than the one before it
Monotone(g) == \A k \in 2..Len(g) : g[k - 1] < g[k]

\* greenDim: the dimensions of ug beyond the fourth, a single 1 without them
GreenDim(dims) == IF Len(dims) > 4 THEN SubSeq(dims, 5, Len(dims)) ELSE <<1>>

\* the checks of sg, resp. sg0, against ug
TractionError(dims, name) ==
  IF dims[1] # NtgComp(nugComp)
  THEN "The first dimension of input argument '" \o name \o "' has incorrect size."
  ELSE IF Len(ugdim) # Len(dims)
  THEN "Matrix dimensions of input arguments 'ug' and '" \o name \o "' must agree."
  ELSE IF \E k \in 2..Len(ugdim) : ugdim[k] # dims[k]
  THEN "Matrix dimensions of input arguments 'ug' and '" \o name \o "' are incompatible."
  ELSE NoMsg

\* The largest k of the reads prhs[greenPos+k] an Integrate routine makes
\* once its argument count is accepted: the kernel parameters, sg and sg0 of
\* a 'user' call that wants T, and L, ky, nmax of a periodic problem.
LastOffset(g) ==
  IF g = "user" THEN (IF probPeriodic THEN 9 ELSE IF TmatOut THEN 6 ELSE 4)
  ELSE IF g = "fsgreenf" THEN 7
  ELSE IF g = "fsgreen3d" THEN (IF probPeriodic THEN 9 ELSE 6)
  ELSE IF g = "fsgreen3d0" THEN (IF probPeriodic THEN 5 ELSE 2)
  ELSE IF g = "fsgreen3dt" THEN 5
  ELSE IF g = "fsgreen2d_inplane" THEN 6
  ELSE IF g = "fsgreen2d_inplane0" THEN 2
  ELSE IF g = "fsgreen2d_outofplane" THEN 4
  ELSE 1

\* the index of the last argument the routine reads
LastRead(g) == greenPos + LastOffset(g)

\* INPUT ARGUMENT PROCESSING of IntegrateGreenUser: the message of the first
\* check that fails, in the order of the code; NoMsg if none does.
UserError ==
  IF probPeriodic /\ nrhs # 13 THEN WrongNumberMsg
  ELSE IF ~probPeriodic /\ nrhs > greenPos + 7 THEN TooManyInMsg
  ELSE IF ~probPeriodic /\ nrhs < greenPos + 5 THEN TooFewMsg
  ELSE IF ~paramsOk THEN "Input argument 'zs' must be numeric."
  ELSE IF ~Monotone(grids.zs) THEN "Input argument 'zs' must be monotonically increasing."
  ELSE IF ~Monotone(grids.r) THEN "Input argument 'r' must be monotonically increasing."
  ELSE IF ~Monotone(grids.z) THEN "Input argument 'z' must be monotonically increasing."
  ELSE IF ~UgCompAllowed(probDim, probAxi, nugComp) THEN UgDimMsg
  ELSE IF Len(grids.zs) # (IF Len(ugdim) > 1 THEN ugdim[2] ELSE 1) THEN "Input arguments 'ug' and 'zs' are incompatible"
  ELSE IF Len(grids.r) # (IF Len(ugdim) > 2 THEN ugdim[3] ELSE 1) THEN "Input arguments 'ug' and 'r' are incompatible"
  ELSE IF Len(grids.z) # (IF Len(ugdim) > 3 THEN ugdim[4] ELSE 1) THEN "Input arguments 'ug' and 'z' are incompatible"
  ELSE IF TmatOut /\ nrhs < greenPos + 7 THEN TooFewMsg
  ELSE IF TmatOut /\ TractionError(sgdim, "sg") # NoMsg
  THEN TractionError(sgdim, "sg")
  ELSE IF TmatOut THEN TractionError(sg0dim, "sg0")
  ELSE NoMsg

\* Variant: plhs[0] is created ahead of the argument checks.
UserCheckLate ==
  /\ pc = "integrate"
  /\ outU' = [made |-> TRUE, dims |-> <<0, 0>>, cmplx |-> FALSE]
  /\ plhs' = [U |-> TRUE, T |-> FALSE]
  /\ IF UserError # NoMsg
     THEN /\ Throw(UserError)
          /\ UNCHANGED <<ugCmplx, tgCmplx, tg0Cmplx, nColDof>>
     ELSE /\ ugCmplx' = argCmplx[1]
          /\ tgCmplx' = (IF TmatOut THEN argCmplx[2] ELSE FALSE)
          /\ tg0Cmplx' = (IF TmatOut THEN argCmplx[3] ELSE FALSE)
          /\ nColDof' \in UserColDofValues(nugComp, probAxi)
          /\ pc' = "user_out"
          /\ UNCHANGED exception
  /\ UNCHANGED <<modules, inputs, args, statics, history, sublocals, cursor, locals,
                 buffers, TmatOut, UmatOut, nDof, caller, Cache, getCache,
                 greenPos, sArg, outT>>

\* The argument checks, then the complex flags and nColDof.
UserCheck ==
  /\ pc = "integrate"
  /\ IF UserError # NoMsg
     THEN /\ Throw(UserError)
          /\ UNCHANGED gateway
     ELSE /\ ugCmplx' = argCmplx[1]
          /\ tgCmplx' = (IF TmatOut THEN argCmplx[2] ELSE FALSE)
          /\ tg0Cmplx' = (IF TmatOut THEN argCmplx[3] ELSE FALSE)
          /\ nColDof' \in UserColDofValues(nugComp, probAxi)
          /\ \/ pc' = "user_out"
             \/ /\ LastRead("user") >= nrhs
                /\ pc' = "crashed"
          /\ UNCHANGED <<exception, TmatOut, UmatOut, nDof, plhs, caller>>
  /\ UNCHANGED <<modules, session, inputs, sublocals, cursor, locals, buffers>>

\* MatDimT[0], MatDimT[1]; MatDim[0], MatDim[1] of the routines with one
\* dimension array
DimsOfSelection(nD) ==
  IF sArg.s = "null" THEN <<nD, nD>> ELSE <<sArg.ms, sArg.ns>>

\* Variant: U has the size of the selection also when it is not wanted.
KeepsSizeU(nD) == DimsOfSelection(nD)

\* MatDimU[0], MatDimU[1]: nDof x nDof without s, ms x ns with it, 0 x 0 when
\* U is not wanted
UserDimsU(nD) ==
  IF ~UmatOut THEN <<0, 0>>
  ELSE IF sArg.s = "null" THEN <<nD, nD>> ELSE <<sArg.ms, sArg.ns>>

\* if (probPeriodic) MatDim[nMatDim-1]=nWave;
WaveDim == IF probPeriodic THEN <<nWave>> ELSE <<>>

\* OUTPUT ARGUMENT POINTERS of IntegrateGreenUser: nDof, the dimension
\* arrays, plhs[0], plhs[1]; then bemmat is called.  Either allocation of a
\* dimension array can fail.
UserOutputs ==
  /\ pc = "user_out"
  /\ nDof' = nColDof * nTotalColl
  /\ LET U == [made |-> TRUE,
               dims |-> UserDimsU(nDof') \o GreenDim(ugdim) \o WaveDim,
               cmplx |-> (ugCmplx \/ probPeriodic)]
         T == [made |-> TRUE,
               dims |-> DimsOfSelection(nDof') \o GreenDim(ugdim) \o WaveDim,
               cmplx |-> (tgCmplx \/ probPeriodic)]
     IN \/ /\ Throw(MemoryMsg)
           /\ UNCHANGED <<plhs, outU, outT>>
        \/ /\ TmatOut
           /\ outU' = U
           /\ plhs' = [U |-> TRUE, T |-> FALSE]
           /\ Throw(MemoryMsg)
           /\ UNCHANGED outT
        \/ /\ outU' = U
           /\ outT' = (IF TmatOut THEN T ELSE NoArray)
           /\ plhs' = [U |-> TRUE, T |-> TmatOut]
           /\ pc' = "bemmat"
           /\ UNCHANGED exception
  /\ UNCHANGED <<modules, inputs, args, statics, history, sublocals, cursor, locals,
                 buffers, TmatOut, UmatOut, ugCmplx, tgCmplx, tg0Cmplx,
                 nColDof, caller, Cache, getCache, greenPos, sArg>>

\* IntegrateGreenUser from its first statement to the call of bemmat.
IntegrateGreenUser == UserCheck \/ UserOutputs

\* ------------------------------------------- the built-in kernel families
\* The parameters after the kernel name in the help text of BEMMAT.
DocParams(g) ==
  IF g \in {"fsgreen2d_inplane0", "fsgreen3d0"} THEN 2
  ELSE IF g = "fsgreen2d_outofplane0" THEN 1
  ELSE IF g = "fsgreen2d_outofplane" THEN 4
  ELSE IF g = "fsgreen3dt" THEN 5
  ELSE IF g = "fsgreenf" THEN 7
  ELSE 6

\* if (!(nrhs==N)) throw("Wrong number of input arguments."); of the
\* routines that compare nrhs with a number
FixedCount(g) ==
  IF g = "fsgreenf" THEN 11
  ELSE IF g = "fsgreen3dt" THEN 9
  ELSE IF g = "fsgreen2d_inplane" THEN 10
  ELSE IF g = "fsgreen2d_inplane0" THEN 6
  ELSE IF g = "fsgreen2d_outofplane" THEN 8
  ELSE 5

\* The argument count check of the family's Integrate routine.
FsCountError(g) ==
  IF g = "fsgreen3d"
  THEN IF probPeriodic /\ nrhs # 13 THEN WrongNumberMsg
       ELSE IF ~probPeriodic /\ nrhs > greenPos + 7 THEN TooManyInMsg
       ELSE IF ~probPeriodic /\ nrhs < greenPos + 5 THEN TooFewMsg
       ELSE NoMsg
  ELSE IF g = "fsgreen3d0"
  THEN IF (probPeriodic /\ nrhs # 10) \/ (~probPeriodic /\ nrhs # greenPos + 3)
       THEN WrongNumberMsg ELSE NoMsg
  ELSE IF nrhs # FixedCount(g) THEN WrongNumberMsg ELSE NoMsg

\* const unsigned int nugComp=...;
FsNugComp(g) ==
  IF g = "fsgreenf" THEN 9
  ELSE IF g \in {"fsgreen3d", "fsgreen3d0", "fsgreen3dt"} THEN 5
  ELSE IF g \in {"fsgreen2d_inplane", "fsgreen2d_inplane0"} THEN 4
  ELSE 1

\* greenDim: wavenumbers and frequencies, the frequencies or time steps, or
\* one set for a static kernel
FsGreenDim(g) ==
  IF g = "fsgreenf" THEN <<nWave, nGrSet>>
  ELSE IF g \in {"fsgreen2d_inplane0", "fsgreen2d_outofplane0", "fsgreen3d0"}
  THEN <<1>>
  ELSE <<nGrSet>>

\* the routines with nMatDim=(probPeriodic ? 3+nGreenDim : 2+nGreenDim)
PeriodicFamilies == {"user", "fsgreen3d", "fsgreen3d0"}

\* The entry of a built-in family's Integrate routine: the argument count,
\* then the constants ugCmplx, tgCmplx, tg0Cmplx and nColDof of the family.
\* The routine then reads prhs[greenPos+1..LastRead]: with fewer than that
\* many arguments the read is outside the argument array.
FsGreenCheck ==
  /\ pc = "fs_green"
  /\ IF FsCountError(green) # NoMsg
     THEN /\ Throw(FsCountError(green))
          /\ UNCHANGED gateway
     ELSE /\ ugCmplx' = (green \in {"fsgreenf", "fsgreen2d_inplane",
                                    "fsgreen2d_outofplane", "fsgreen3d"})
          /\ tgCmplx' = ugCmplx'
          /\ tg0Cmplx' = (ugCmplx' /\ green # "fsgreen3d")
          /\ nColDof' = (IF green = "fsgreenf" THEN 3
                         ELSE IF FsNugComp(green) = 5
                         THEN (IF probAxi THEN 2 ELSE 3)
                         ELSE IF FsNugComp(green) = 4 THEN 2 ELSE 1)
          /\ \/ pc' = "fs_out"
             \/ /\ LastRead(green) >= nrhs
                /\ pc' = "crashed"
          /\ UNCHANGED <<exception, TmatOut, UmatOut, nDof, plhs, caller>>
  /\ UNCHANGED <<modules, session, inputs, sublocals, cursor, locals, buffers>>

\* MatDim[0], MatDim[1] of U: only IntegrateFsGreen3d0 has the line
\* if (UmatOut==false){MatDimU[0]=0; MatDimU[1]=0;}
FsDimsU(g, nD) ==
  IF g = "fsgreen3d0" THEN UserDimsU(nD) ELSE DimsOfSelection(nD)

\* if (probPeriodic) MatDim[nMatDim-1]=nWave; where the routine has the line
FsWaveDim(g) == IF g \in PeriodicFamilies THEN WaveDim ELSE <<>>

\* OUTPUT ARGUMENT POINTERS of a built-in family: nDof, the dimension array
\* (two of them in IntegrateFsGreen3d0), plhs[0], plhs[1]; then bemmat is
\* called.
FsGreenOutputs ==
  /\ pc = "fs_out"
  /\ nDof' = nColDof * nTotalColl
  /\ LET periodic == probPeriodic /\ green \in PeriodicFamilies
         U == [made |-> TRUE,
               dims |-> FsDimsU(green, nDof') \o FsGreenDim(green) \o FsWaveDim(green),
               cmplx |-> (ugCmplx \/ periodic)]
         T == [made |-> TRUE,
               dims |-> DimsOfSelection(nDof') \o FsGreenDim(green) \o FsWaveDim(green),
               cmplx |-> (tgCmplx \/ periodic)]
     IN \/ /\ Throw(MemoryMsg)
           /\ UNCHANGED <<plhs, outU, outT>>
        \/ /\ TmatOut /\ green = "fsgreen3d0"
           /\ outU' = U
           /\ plhs' = [U |-> TRUE, T |-> FALSE]
           /\ Throw(MemoryMsg)
           /\ UNCHANGED outT
        \/ /\ outU' = U
           /\ outT' = (IF TmatOut THEN T ELSE NoArray)
           /\ plhs' = [U |-> TRUE, T |-> TmatOut]
           /\ pc' = "bemmat"
           /\ UNCHANGED exception
  /\ UNCHANGED <<modules, inputs, args, statics, history, sublocals, cursor, locals,
                 buffers, TmatOut, UmatOut, ugCmplx, tgCmplx, tg0Cmplx,
                 nColDof, caller, Cache, getCache, greenPos, sArg>>

\* ----------------------------------------------------------------- driver
\* Two-dimensional problem: every element, every collocation point that is
\* singular for it, in index order, goes to bemintsing2d.
Bemmat2d ==
  /\ pc = "bemmat"
  /\ probDim = 2 /\ ~probAxi
  /\ IF iElt = nElt
     THEN pc' = "mex_return" /\ UNCHANGED cursor
     ELSE IF iColl = nTotalColl
     THEN /\ iElt' = iElt + 1 /\ iColl' = 0
          /\ UNCHANGED <<pc, EltCollIndex, RegularColl>>
     ELSE IF MeshRegularColl(nElt, nEltColl, iElt)[iColl] = 0
     THEN /\ pc' = "sing_entry"
          /\ EltCollIndex' = MeshEltCollIndex(nEltColl, iElt)
          /\ UNCHANGED <<iElt, iColl, RegularColl>>
     ELSE /\ iColl' = iColl + 1
          /\ UNCHANGED <<pc, iElt, EltCollIndex, RegularColl>>
  /\ UNCHANGED <<modules, session, inputs, sublocals, exception, gateway, locals, buffers>>

\* Three-dimensional problem: every element goes to bemintreg3ddiag with the
\* classification of the collocation points for that element.
Bemmat3d ==
  /\ pc = "bemmat"
  /\ probDim = 3
  /\ IF iElt = nElt
     THEN pc' = "mex_return" /\ UNCHANGED cursor
     ELSE /\ pc' = "reg_entry"
          /\ EltCollIndex' = MeshEltCollIndex(nEltColl, iElt)
          /\ RegularColl' = MeshRegularColl(nElt, nEltColl, iElt)
          /\ UNCHANGED <<iElt, iColl>>
  /\ UNCHANGED <<modules, session, inputs, sublocals, exception, gateway, locals, buffers>>

\* Axisymmetric problem: its integrators are outside this model.
BemmatAxi ==
  /\ pc = "bemmat"
  /\ probDim = 2 /\ probAxi
  /\ pc' = "mex_return"
  /\ UNCHANGED <<modules, session, inputs, sublocals, exception, gateway, cursor, locals, buffers>>

\* ----------------------------------------------------------- bemintsing2d
\* Element properties, nColDof, the working arrays (any new(nothrow) may
\* return 0), the quadrature tables, the zeroing of TXi.
Sing2dEntry ==
  /\ pc = "sing_entry"
  /\ \/ /\ sColDof' \in Sing2dColDofValues(nugComp)
        /\ iXi' = 0
        /\ pc' = "sing_loop"
        /\ UNCHANGED <<exception, Xdiff, Zdiff, gr, rot>>
     \/ /\ Throw(MemoryMsg)
        /\ UNCHANGED locals
  /\ UNCHANGED <<modules, session, inputs, sublocals, gateway, cursor, buffers>>

\* for (iXi...) : Xdiff, Zdiff of the quadrature point
Sing2dOffset ==
  /\ pc = "sing_loop"
  /\ iXi < nXi
  /\ \E d \in OffsetSet : Xdiff' = d[1] /\ Zdiff' = d[2]
  /\ pc' = "sing_check"
  /\ UNCHANGED <<modules, session, inputs, sublocals, exception, gateway, cursor, sColDof, iXi, gr, rot,
                 buffers>>

\* xiR=fabs(Xdiff); xiZ=Zdiff; the coincidence test
Sing2dCheck ==
  /\ pc = "sing_check"
  /\ IF Coincides(fabs(Xdiff), Zdiff)
     THEN Throw(CoincideMsg)
     ELSE pc' = "sing_eval" /\ UNCHANGED exception
  /\ UNCHANGED <<modules, session, inputs, sublocals, gateway, cursor, locals, buffers>>

\* greeneval2d(...,xiR,xiZ,Xsgn,...,iColl,...): Ugr, Tgr, Tgr0 now hold the
\* kernel at the offset of (iColl, iXi).
Sing2dEval ==
  /\ pc = "sing_eval"
  /\ gr' = <<iColl, iXi>>
  /\ pc' = "sing_rotate"
  /\ UNCHANGED <<modules, session, inputs, sublocals, exception, gateway, cursor, sColDof, iXi, Xdiff,
                 Zdiff, rot, buffers>>

\* greenrotate2d(normal,iXi,...): TXi, TXi0 now hold Tgr, Tgr0 contracted
\* with the normal of quadrature point iXi.
Sing2dRotate ==
  /\ pc = "sing_rotate"
  /\ rot' = <<gr[1], gr[2], iXi>>
  /\ pc' = "sing_sum"
  /\ UNCHANGED <<modules, session, inputs, sublocals, exception, gateway, cursor, sColDof, iXi, Xdiff,
                 Zdiff, gr, buffers>>

\* The statements on U and T[..colBeg..] of the loops over iEltColl, iGrSet.
Sing2dFar(ker, at) ==
  { Entry(DenseSlot(nDof, DenseInd0(nDof, g), sColDof * EltCollIndex[k],
                    t[2], sColDof * iColl, t[3]),
          1, ker, nugComp * g + t[1], at, k) :
      k \in 0..(nEltColl - 1), g \in 0..(nGrSet - 1),
      t \in Sing2dTerms(nugComp) }

\* Variant: the diagonal statements are executed for the first node only.
Sing2dDiagFirstNode(ker, at) ==
  { Entry(DenseSlot(nDof, DenseInd0(nDof, g), sColDof * iColl,
                    t[2], sColDof * iColl, t[3]),
          -1, ker, nugComp * g + t[1], at, 0) :
      g \in 0..(nGrSet - 1), t \in Sing2dTerms(nugComp) }

\* The statements "Account for singular part ... on the diagonal".
Sing2dDiag(ker, at) ==
  { Entry(DenseSlot(nDof, DenseInd0(nDof, g), sColDof * iColl,
                    t[2], sColDof * iColl, t[3]),
          -1, ker, nugComp * g + t[1], at, k) :
      k \in 0..(nEltColl - 1), g \in 0..(nGrSet - 1),
      t \in Sing2dTerms(nugComp) }

\* SUM UP RESULTS, FOR ALL COLLOCATION POINTS; then the loop body's locals
\* Xdiff, Zdiff go out of scope and iXi++
Sing2dSum ==
  /\ pc = "sing_sum"
  /\ URe' = URe (+) SetToBag(Sing2dFar("UgrRe", gr))
  /\ UIm' = IF ugCmplx THEN UIm (+) SetToBag(Sing2dFar("UgrIm", gr)) ELSE UIm
  /\ TRe' = IF TmatOut
            THEN TRe (+) SetToBag(Sing2dFar("TXiRe", rot))
                     (+) SetToBag(Sing2dDiag("TXi0Re", rot))
            ELSE TRe
  /\ TIm' = IF TmatOut
            THEN TIm (+) (IF tgCmplx THEN SetToBag(Sing2dFar("TXiIm", rot))
                                     ELSE EmptyBag)
                     (+) (IF tg0Cmplx THEN SetToBag(Sing2dDiag("TXi0Im", rot))
                                      ELSE EmptyBag)
            ELSE TIm
  /\ iXi' = iXi + 1
  /\ Xdiff' = 0 /\ Zdiff' = 0
  /\ pc' = "sing_loop"
  /\ UNCHANGED <<modules, session, inputs, sublocals, exception, gateway, cursor, sColDof, gr, rot>>

\* Loop over the quadrature points done: delete [] ...; back in the driver.
Sing2dReturn ==
  /\ pc = "sing_loop"
  /\ ~(iXi < nXi)
  /\ sColDof' = 0 /\ iXi' = 0 /\ gr' = None /\ rot' = None
  /\ iColl' = iColl + 1
  /\ pc' = "bemmat"
  /\ UNCHANGED <<modules, session, inputs, sublocals, exception, gateway, iElt, EltCollIndex, RegularColl,
                 Xdiff, Zdiff, buffers>>

\* -------------------------------------------- bemintreg3ddiag, dense mode
\* The working arrays (any new(nothrow) may return 0), the geometry tables,
\* then if (spassed) ... else ...
Reg3dEntry ==
  /\ pc = "reg_entry"
  /\ \/ /\ IF sel.spassed
           THEN /\ iuniquescolli' = 0 /\ nuniquescollicumul' = 0
                /\ pc' = "sub_point"
                /\ UNCHANGED iColl
           ELSE /\ iColl' = 0
                /\ pc' = "reg_coll"
                /\ UNCHANGED sublocals
        /\ UNCHANGED exception
     \/ /\ Throw(MemoryMsg)
        /\ UNCHANGED <<iColl, sublocals>>
  /\ UNCHANGED <<modules, session, inputs, gateway, iElt, EltCollIndex, RegularColl, locals,
                 buffers>>

\* for (iColl...) if (RegularColl[iColl]==1)
Reg3dColl ==
  /\ pc = "reg_coll"
  /\ iColl < nTotalColl
  /\ IF RegularColl[iColl] = 1
     THEN iXi' = 0 /\ pc' = "reg_xi" /\ UNCHANGED iColl
     ELSE iColl' = iColl + 1 /\ UNCHANGED <<pc, iXi>>
  /\ UNCHANGED <<modules, session, inputs, sublocals, exception, gateway, iElt, EltCollIndex, RegularColl,
                 sColDof, Xdiff, Zdiff, gr, rot, buffers>>

\* for (iXi...) : Xdiff, Ydiff, Zdiff, xiR, xiTheta, xiZ of the pair; they
\* are read by greeneval3d and greenrotate3d only.
Reg3dOffset ==
  /\ pc = "reg_xi"
  /\ iXi < nXi
  /\ pc' = "reg_eval"
  /\ UNCHANGED <<modules, session, inputs, sublocals, exception, gateway, cursor, locals, buffers>>

\* greeneval3d(...,xiR,xiZ,...,iColl,...)
Reg3dEval ==
  /\ pc = "reg_eval"
  /\ gr' = <<iColl, iXi>>
  /\ pc' = "reg_rotate"
  /\ UNCHANGED <<modules, session, inputs, sublocals, exception, gateway, cursor, sColDof, iXi, Xdiff,
                 Zdiff, rot, buffers>>

\* Variant of Reg3dRotate: the kernel is rotated for the first quadrature
\* point of a collocation point only.
Reg3dRotateFirstOnly ==
  /\ pc = "reg_rotate"
  /\ rot' = IF iXi = 0 THEN <<gr[1], gr[2], iXi>> ELSE rot
  /\ pc' = "reg_sum"
  /\ UNCHANGED <<modules, session, inputs, sublocals, exception, gateway, cursor, sColDof, iXi, Xdiff,
                 Zdiff, gr, buffers>>

\* greenrotate3d(normal,iXi,xiTheta,...): UXi, TXi, TXi0
Reg3dRotate ==
  /\ pc = "reg_rotate"
  /\ rot' = <<gr[1], gr[2], iXi>>
  /\ pc' = "reg_sum"
  /\ UNCHANGED <<modules, session, inputs, sublocals, exception, gateway, cursor, sColDof, iXi, Xdiff,
                 Zdiff, gr, buffers>>

\* The statements on U and T[..colBeg..]: rowBeg=3*iColl, colBeg=3*EltCollIndex
Reg3dFar(ker) ==
  { Entry(DenseSlot(nDof, DenseInd0(nDof, g), 3 * EltCollIndex[k],
                    t[2], 3 * iColl, t[3]),
          1, ker, 9 * g + t[1], rot, k) :
      k \in 0..(nEltColl - 1), g \in 0..(nGrSet - 1), t \in Terms9 }

\* Variant: the diagonal statements use the column block of the node.
Reg3dDiagAtNode(ker) ==
  { Entry(DenseSlot(nDof, DenseInd0(nDof, g), 3 * EltCollIndex[k],
                    t[2], 3 * iColl, t[3]),
          -1, ker, 9 * g + t[1], rot, k) :
      k \in 0..(nEltColl - 1), g \in 0..(nGrSet - 1), t \in Terms9 }

\* The statements "Account for singular part ... on the diagonal terms".
Reg3dDiag(ker) ==
  { Entry(DenseSlot(nDof, DenseInd0(nDof, g), 3 * iColl,
                    t[2], 3 * iColl, t[3]),
          -1, ker, 9 * g + t[1], rot, k) :
      k \in 0..(nEltColl - 1), g \in 0..(nGrSet - 1), t \in Terms9 }

\* SUM UP RESULTS, FOR ALL COLLOCATION POINTS (s empty); then iXi++
Reg3dSumDense ==
  /\ pc = "reg_sum"
  /\ URe' = URe (+) SetToBag(Reg3dFar("UXiRe"))
  /\ UIm' = IF ugCmplx THEN UIm (+) SetToBag(Reg3dFar("UXiIm")) ELSE UIm
  /\ TRe' = IF TmatOut
            THEN TRe (+) SetToBag(Reg3dFar("TXiRe"))
                     (+) SetToBag(Reg3dDiag("TXi0Re"))
            ELSE TRe
  /\ TIm' = IF TmatOut /\ tgCmplx
            THEN TIm (+) SetToBag(Reg3dFar("TXiIm"))
                     (+) SetToBag(Reg3dDiag("TXi0Im"))
            ELSE TIm
  /\ iXi' = iXi + 1
  /\ pc' = "reg_xi"
  /\ UNCHANGED <<modules, session, inputs, sublocals, exception, gateway, cursor, sColDof, Xdiff, Zdiff,
                 gr, rot>>

\* Quadrature points of this collocation point done: next collocation point.
Reg3dNextColl ==
  /\ pc = "reg_xi"
  /\ ~(iXi < nXi)
  /\ iXi' = 0
  /\ iColl' = iColl + 1
  /\ pc' = "reg_coll"
  /\ UNCHANGED <<modules, session, inputs, sublocals, exception, gateway, iElt, EltCollIndex, RegularColl,
                 sColDof, Xdiff, Zdiff, gr, rot, buffers>>

\* Loop over the collocation points done: delete [] ...; back in the driver.
Reg3dReturn ==
  /\ pc = "reg_coll"
  /\ ~(iColl < nTotalColl)
  /\ gr' = None /\ rot' = None
  /\ iElt' = iElt + 1 /\ iColl' = 0
  /\ pc' = "bemmat"
  /\ UNCHANGED <<modules, session, inputs, sublocals, exception, gateway, EltCollIndex, RegularColl,
                 sColDof, iXi, Xdiff, Zdiff, buffers>>

\* ------------------------------------------------ the output selection s
\* The selected rows and columns are degrees of freedom 3*point+component;
\* output slot k = a + ms*b holds row a and column b of the selection.  The
\* arrays handed to bemintreg3ddiag describe the slots: scolli, scompi,
\* scollj, scompj give point and component of the row and column of a slot;
\* uniquescolli lists the row points, nuniquescolli counts the slots of each,
\* uniquescolliind lists the slots grouped by row point; InListuniquecollj
\* marks the points that have a selected column; inddiag[9*i+3*ci+cj] is the
\* slot of row (point i, ci) and column (point i, cj), or -1.
CompFamilies == { {0}, {1, 2}, {0, 1, 2} }

PointRanges(nP) ==
  { a..b : a \in 0..(nP - 1), b \in 0..(nP - 1) } \ {{}}

RECURSIVE SortedSeq(_)
SortedSeq(S) ==
  IF S = {} THEN <<>>
  ELSE LET m == CHOOSE x \in S : \A y \in S : x <= y
       IN <<m>> \o SortedSeq(S \ {m})

ZeroBased(sq) == [k \in 0..(Len(sq) - 1) |-> sq[k + 1]]

SelDofs(pts, comps) == ZeroBased(SortedSeq({ 3 * q + c : q \in pts, c \in comps }))

SlotsOfPoint(rows, m, n, p) ==
  { k \in 0..(m * n - 1) : rows[k % m] \div 3 = p }

RECURSIVE GroupedSlots(_, _, _, _, _)
GroupedSlots(rows, m, n, uniq, i) ==
  IF i = Cardinality(DOMAIN uniq) THEN <<>>
  ELSE SortedSeq(SlotsOfPoint(rows, m, n, uniq[i]))
         \o GroupedSlots(rows, m, n, uniq, i + 1)

DiagSlot(rows, cols, m, n, p, ci, cj) ==
  LET hits == { k \in 0..(m * n - 1) :
                  rows[k % m] = 3 * p + ci /\ cols[k \div m] = 3 * p + cj }
  IN IF hits = {} THEN -1 ELSE CHOOSE k \in hits : TRUE

Selection(rowPts, colPts, comps, bd, nP) ==
  LET rows == SelDofs(rowPts, comps)
      cols == SelDofs(colPts, comps)
      m == Cardinality(DOMAIN rows)
      n == Cardinality(DOMAIN cols)
      uniq == ZeroBased(SortedSeq(rowPts))
      N == Cardinality(rowPts)
  IN [ spassed |-> TRUE, ms |-> m, ns |-> n,
       scompi |-> [k \in 0..(m * n - 1) |-> rows[k % m] % 3],
       scollj |-> [k \in 0..(m * n - 1) |-> cols[k \div m] \div 3],
       scompj |-> [k \in 0..(m * n - 1) |-> cols[k \div m] % 3],
       uniquescolli |-> uniq,
       Nuniquescolli |-> [z \in {0} |-> N],
       nuniquescolli |->
         [i \in 0..(N - 1) |-> Cardinality(SlotsOfPoint(rows, m, n, uniq[i]))],
       uniquescolliind |-> ZeroBased(GroupedSlots(rows, m, n, uniq, 0)),
       InListuniquecollj |-> [q \in 0..(nP - 1) |-> q \in colPts],
       inddiag |-> [x \in 0..(9 * N - 1) |->
                      DiagSlot(rows, cols, m, n, uniq[x \div 9],
                               (x % 9) \div 3, x % 3)],
       blockdiag |-> bd ]

\* ---------------------------------- bemintreg3ddiag, subset-selection mode
\* The state at the call of bemintreg3ddiag for one element with s passed.
InitSubset ==
  /\ nlhs \in {1, 2} /\ nrhs = 11
  /\ probDim = 3 /\ probAxi = FALSE /\ nugComp = 5
  /\ nGrSet = MaxGrSet
  /\ argCmplx \in { f \in FlagCombos : f[2] = f[3] }
  /\ nElt = MaxElt
  /\ nEltColl \in 1..MaxEltColl
  /\ nTotalColl = MeshTotalColl(nElt, nEltColl)
  /\ nXi = MaxXi
  /\ \E rowPts \in PointRanges(nTotalColl), colPts \in PointRanges(nTotalColl),
        comps \in CompFamilies :
       /\ Cardinality(rowPts) <= MaxSel
       /\ Cardinality(colPts) <= MaxSel
       /\ \E bd \in [0..(Cardinality(rowPts) - 1) -> BOOLEAN] :
            sel = Selection(rowPts, colPts, comps, bd, nTotalColl)
  /\ iuniquescolli = 0 /\ nuniquescollicumul = 0
  /\ pc = "reg_entry"
  /\ TmatOut = (nlhs > 1) /\ UmatOut = TRUE
  /\ ugCmplx = argCmplx[1]
  /\ tgCmplx = (IF TmatOut THEN argCmplx[2] ELSE FALSE)
  /\ tg0Cmplx = (IF TmatOut THEN argCmplx[3] ELSE FALSE)
  /\ nColDof = 3 /\ nDof = 3 * nTotalColl
  /\ exception = NoMsg /\ plhs = [U |-> TRUE, T |-> TmatOut]
  /\ caller = [status |-> "running", msg |-> NoMsg, outputs |-> NoOutputs]
  /\ iElt \in 0..(nElt - 1) /\ iColl = 0
  /\ EltCollIndex = MeshEltCollIndex(nEltColl, iElt)
  /\ RegularColl = MeshRegularColl(nElt, nEltColl, iElt)
  /\ sColDof = 0 /\ iXi = 0 /\ Xdiff = 0 /\ Zdiff = 0
  /\ gr = None /\ rot = None
  /\ URe = EmptyBag /\ UIm = EmptyBag /\ TRe = EmptyBag /\ TIm = EmptyBag
  /\ ConsistentUser
  /\ prhsKind = Kinds(Form.sel, nrhs)
  /\ Cache = FALSE /\ getCache = FALSE /\ greenPos = 4
  /\ sArg = [ms |-> sel.ms, ns |-> sel.ns, s |-> "data"]
  /\ outU = [made |-> TRUE, dims |-> <<sel.ms, sel.ns, nGrSet>>, cmplx |-> ugCmplx]
  /\ outT = (IF TmatOut
             THEN [made |-> TRUE, dims |-> <<sel.ms, sel.ns, nGrSet>>, cmplx |-> tgCmplx]
             ELSE NoArray)
  /\ CacheValid = TRUE
  /\ Nod = Fresh(1) /\ Elt = Fresh(1) /\ TypeID = Fresh(1) /\ CollPoints = Fresh(1)
  /\ nCall = 1 /\ loadDone = 1 /\ freedTwice = FALSE
  /\ passed = [Nod |-> Fresh(1), Elt |-> Fresh(1), TypeID |-> Fresh(1),
               CollPoints |-> Fresh(1)]
  /\ before = <<FALSE, NullArray, NullArray, NullArray, NullArray>>
  /\ ModulesLoaded

\* for (iuniquescolli...) if (RegularColl[uniquescolli[iuniquescolli]]==1);
\* a point that is not regular only advances nuniquescollicumul.
SubPoint ==
  /\ pc = "sub_point"
  /\ iuniquescolli < sel.Nuniquescolli[0]
  /\ IF RegularColl[sel.uniquescolli[iuniquescolli]] = 1
     THEN iXi' = 0 /\ pc' = "sub_xi" /\ UNCHANGED sublocals
     ELSE /\ nuniquescollicumul' =
               nuniquescollicumul + sel.nuniquescolli[iuniquescolli]
          /\ iuniquescolli' = iuniquescolli + 1
          /\ UNCHANGED <<pc, iXi>>
  /\ UNCHANGED <<modules, session, inputs, exception, gateway, cursor, sColDof, Xdiff, Zdiff,
                 gr, rot, buffers>>

\* for (iXi...) : Xdiff, Ydiff, Zdiff, xiR, xiTheta, xiZ of the pair
SubOffset ==
  /\ pc = "sub_xi"
  /\ iXi < nXi
  /\ pc' = "sub_eval"
  /\ UNCHANGED <<modules, session, inputs, sublocals, exception, gateway, cursor, locals,
                 buffers>>

\* greeneval3d(...,uniquescolli[iuniquescolli],...)
SubEval ==
  /\ pc = "sub_eval"
  /\ gr' = <<sel.uniquescolli[iuniquescolli], iXi>>
  /\ pc' = "sub_rotate"
  /\ UNCHANGED <<modules, session, inputs, sublocals, exception, gateway, cursor, sColDof, iXi,
                 Xdiff, Zdiff, rot, buffers>>

\* greenrotate3d(normal,iXi,xiTheta,...)
SubRotate ==
  /\ pc = "sub_rotate"
  /\ rot' = <<gr[1], gr[2], iXi>>
  /\ pc' = "sub_sum"
  /\ UNCHANGED <<modules, session, inputs, sublocals, exception, gateway, cursor, sColDof, iXi,
                 Xdiff, Zdiff, gr, buffers>>

\* Whether the unsigned value slot is below size.
SlotBelow(slot, size) ==
  \/ slot[1] < size \div Half
  \/ slot[1] = size \div Half /\ slot[2] < size % Half

\* The number of elements of T: ms*ns*nGrSet when the array was created, none
\* when traction is not requested (TRe=0, TIm=0).
SubsetTSize == IF TmatOut THEN sel.ms * sel.ns * nGrSet ELSE 0

\* unsigned int ind0=ms*ns*iGrSet;  ind0+inddiag[...] in unsigned arithmetic
SubsetSlot(g, x) == U32(sel.ms * sel.ns * g + sel.inddiag[x])

\* TXi0Re[9*iGrSet+3*scompi[...]+scompj[...]]
T0Index(g, ci, cj) == 9 * g + 3 * ci + cj

\* inddiag[9*iuniquescolli+3*scompi[...]+scompj[...]]
InddiagIndex(i, ci, cj) == 9 * i + 3 * ci + cj

\* if (blockdiag[iuniquescolli]) : nine statements per node and Green set
SubBlockdiagEntries(ker) ==
  { Entry(SubsetSlot(g, 9 * iuniquescolli + c), -1, ker, 9 * g + c, rot, k) :
      k \in 0..(nEltColl - 1), g \in 0..(nGrSet - 1), c \in 0..8 }

\* A statement whose index is not below ms*ns*nGrSet addresses memory outside
\* the array: the process may be killed at it, or go on with memory outside
\* the array overwritten.
SubSumBlockdiag ==
  /\ pc = "sub_sum"
  /\ sel.blockdiag[iuniquescolli]
  /\ TRe' = TRe (+) SetToBag(SubBlockdiagEntries("TXi0Re"))
  /\ TIm' = IF tgCmplx THEN TIm (+) SetToBag(SubBlockdiagEntries("TXi0Im"))
            ELSE TIm
  /\ iXi' = iXi + 1
  /\ \/ pc' = "sub_xi"
     \/ /\ \E e \in SubBlockdiagEntries("TXi0Re") : ~SlotBelow(e.slot, SubsetTSize)
        /\ pc' = "crashed"
  /\ UNCHANGED <<modules, session, inputs, sublocals, exception, gateway, cursor, sColDof,
                 Xdiff, Zdiff, gr, rot, URe, UIm>>

\* else: for the nodes that have a selected column, the slots of this row
\* point whose column point is the node, the Green sets; one statement if the
\* inddiag entry of the slot's component pair is not -1.
SubSelectedHits ==
  { h \in (0..(nEltColl - 1))
            \X (0..(sel.nuniquescolli[iuniquescolli] - 1))
            \X (0..(nGrSet - 1)) :
      LET e == sel.uniquescolliind[nuniquescollicumul + h[2]]
      IN /\ sel.InListuniquecollj[EltCollIndex[h[1]]] = TRUE
         /\ sel.scollj[e] = EltCollIndex[h[1]]
         /\ sel.inddiag[InddiagIndex(iuniquescolli, sel.scompi[e],
                                     sel.scompj[e])] # -1 }

SubSelectedEntries(ker) ==
  { LET e == sel.uniquescolliind[nuniquescollicumul + h[2]]
    IN Entry(SubsetSlot(h[3], InddiagIndex(iuniquescolli, sel.scompi[e],
                                           sel.scompj[e])),
             -1, ker, T0Index(h[3], sel.scompi[e], sel.scompj[e]), rot, h[1]) :
      h \in SubSelectedHits }

SubSumSelected ==
  /\ pc = "sub_sum"
  /\ ~sel.blockdiag[iuniquescolli]
  /\ TRe' = TRe (+) SetToBag(SubSelectedEntries("TXi0Re"))
  /\ TIm' = IF tgCmplx THEN TIm (+) SetToBag(SubSelectedEntries("TXi0Im"))
            ELSE TIm
  /\ iXi' = iXi + 1
  /\ \/ pc' = "sub_xi"
     \/ /\ \E e \in SubSelectedEntries("TXi0Re") : ~SlotBelow(e.slot, SubsetTSize)
        /\ pc' = "crashed"
  /\ UNCHANGED <<modules, session, inputs, sublocals, exception, gateway, cursor, sColDof,
                 Xdiff, Zdiff, gr, rot, URe, UIm>>

\* Quadrature points done: nuniquescollicumul+=nuniquescolli[iuniquescolli]
SubNextPoint ==
  /\ pc = "sub_xi"
  /\ ~(iXi < nXi)
  /\ iXi' = 0
  /\ nuniquescollicumul' = nuniquescollicumul + sel.nuniquescolli[iuniquescolli]
  /\ iuniquescolli' = iuniquescolli + 1
  /\ pc' = "sub_point"
  /\ UNCHANGED <<modules, session, inputs, exception, gateway, cursor, sColDof, Xdiff, Zdiff,
                 gr, rot, buffers>>

\* Loop over the selected row points done: delete [] ...; return.
SubReturn ==
  /\ pc = "sub_point"
  /\ ~(iuniquescolli < sel.Nuniquescolli[0])
  /\ pc' = "returned"
  /\ UNCHANGED <<modules, session, inputs, sublocals, exception, gateway, cursor, locals,
                 buffers>>

\* ------------------------------------------------------------------ Spec
Next ==
  \/ MexValidate \/ MexForm \/ LoadNod \/ LoadElt \/ LoadTyp \/ LoadRest
  \/ MexCacheCheck \/ MexSelection \/ MexDispatch
  \/ IntegrateGreenUser \/ MexReturn \/ MexCatch
  \/ Bemmat2d \/ Bemmat3d \/ BemmatAxi
  \/ Sing2dEntry \/ Sing2dOffset \/ Sing2dCheck \/ Sing2dEval
  \/ Sing2dRotate \/ Sing2dSum \/ Sing2dReturn
  \/ Reg3dEntry \/ Reg3dColl \/ Reg3dOffset \/ Reg3dEval \/ Reg3dRotate
  \/ Reg3dSumDense \/ Reg3dNextColl \/ Reg3dReturn

Spec == Init /\ [][Next]_vars

\* ----------------------------------------------- the gateway on its own
\* The state at the entry of mexFunction.
\* the locals of mexFunction and of the routines it calls, before its first
\* statement
CallLocals ==
  /\ TmatOut = FALSE /\ UmatOut = TRUE
  /\ ugCmplx = FALSE /\ tgCmplx = FALSE /\ tg0Cmplx = FALSE
  /\ nColDof = 0 /\ nDof = 0
  /\ exception = NoMsg /\ plhs = NoOutputs
  /\ caller = [status |-> "running", msg |-> NoMsg, outputs |-> NoOutputs]
  /\ iElt = 0 /\ iColl = 0 /\ EltCollIndex = None /\ RegularColl = None
  /\ sColDof = 0 /\ iXi = 0 /\ Xdiff = 0 /\ Zdiff = 0
  /\ gr = None /\ rot = None
  /\ iuniquescolli = 0 /\ nuniquescollicumul = 0
  /\ URe = EmptyBag /\ UIm = EmptyBag /\ TRe = EmptyBag /\ TIm = EmptyBag
  /\ MexEntry

CallEntry ==
  /\ pc = "mex"
  /\ CallLocals

\* Calls that bring their own mesh.  Either a call of any form (plain, with
\* s, with su and st, with a sparse s) with any kernel name, known or not,
\* and any number of arguments behind the name, for a plain and for a
\* periodic problem; or a 'user' call in the documented form with grids of
\* up to MaxGridLen points with coordinates 0, 1, 2 and a table ug that fits
\* them; or a 'user' call in the documented form with tables ug, sg, sg0 of
\* any first dimension, of four or five dimensions, fitting the grids or not.
InitGateway ==
  /\ nlhs \in {1, 2}
  /\ probDim \in {2, 3}
  /\ probAxi \in BOOLEAN
  /\ (probDim = 3 => ~probAxi)
  /\ nGrSet = MaxGrSet
  /\ argCmplx = <<TRUE, TRUE, FALSE>>
  /\ nElt = MaxElt /\ nEltColl = 1
  /\ nTotalColl = MeshTotalColl(nElt, nEltColl)
  /\ nXi = MaxXi
  /\ sel = NoSelection
  /\ \/ /\ green \in Families \cup {"fsgreen"}
        /\ probPeriodic \in BOOLEAN
        /\ \E form \in {Form.plain, Form.sel, Form.sust, Form.sugiven,
                         Form.sparses} :
             /\ nrhs \in { NamePos(form) + 1 + k : k \in 0..7 } \cup {10, 13}
             /\ prhsKind = Kinds(form, nrhs)
        /\ nugComp = (IF green \in Families \ {"user"} THEN FsNugComp(green)
                      ELSE IF probDim = 3 \/ probAxi THEN 5 ELSE 4)
        /\ paramsOk = TRUE
        /\ grids = [zs |-> <<0>>, r |-> <<0>>, z |-> <<0>>]
        /\ ugdim = <<nugComp, 1, 1, 1, nGrSet>>
        /\ sgdim = <<NtgComp(nugComp), 1, 1, 1, nGrSet>>
        /\ sg0dim = sgdim
     \/ /\ green = "user" /\ probPeriodic = FALSE /\ paramsOk = TRUE
        /\ nrhs = 10 /\ prhsKind = Kinds(Form.plain, nrhs)
        /\ nugComp = (IF probDim = 3 \/ probAxi THEN 5 ELSE 4)
        /\ \E which \in {"zs", "r", "z"},
              g \in UNION { [1..n -> 0..2] : n \in 1..MaxGridLen } :
             grids = [zs |-> (IF which = "zs" THEN g ELSE <<0>>),
                      r  |-> (IF which = "r" THEN g ELSE <<0>>),
                      z  |-> (IF which = "z" THEN g ELSE <<0>>)]
        /\ ugdim = <<nugComp, Len(grids.zs), Len(grids.r), Len(grids.z), nGrSet>>
        /\ sgdim = <<NtgComp(nugComp)>> \o Tail(ugdim)
        /\ sg0dim = sgdim
     \/ /\ green = "user" /\ probPeriodic = FALSE /\ paramsOk \in BOOLEAN
        /\ nrhs = 10 /\ prhsKind = Kinds(Form.plain, nrhs)
        /\ nugComp \in NugComps
        /\ grids = [zs |-> <<0>>, r |-> <<0, 1>>, z |-> <<0>>]
        /\ \E nr \in 1..2 :
             ugdim \in { <<nugComp, 1, nr, 1, nGrSet>>, <<nugComp, 1, nr, 1>> }
        /\ \E first \in {NtgComp(nugComp), 3}, nr \in 1..2 :
             sgdim \in { <<first, 1, nr, 1, nGrSet>>, <<first, 1, nr, 1>> }
        /\ sg0dim \in { sgdim, <<NtgComp(nugComp), 1, 2, 1>> }
  /\ CallEntry /\ LibraryLoaded /\ ModulesLoaded

\* One call of mexFunction up to the call of bemmat.
NextGateway ==
  \/ MexValidate \/ MexForm \/ LoadNod \/ LoadElt \/ LoadTyp \/ LoadRest
  \/ MexCacheCheck \/ MexSelection \/ MexDispatch
  \/ IntegrateGreenUser \/ FsGreenCheck \/ FsGreenOutputs \/ MexCatch

SpecGateway == InitGateway /\ [][NextGateway]_vars

\* -------------------------------------------------- a session of calls
\* The calls of a session, as <<form, nrhs>>: 'fsgreen3d0' with its two
\* parameters on a new mesh, the mesh alone, a sparse nod, a sparse elt, a
\* typ that is no cell array, and 'fsgreen3d0' on the cached mesh, without
\* s, with s, with a sparse s, with st only.
SessionCalls ==
  { <<Form.plain, 6>>, <<Form.plain, 3>>, <<Form.badnod, 6>>,
    <<Form.badelt, 6>>, <<Form.badtyp, 6>>, <<Form.cached, 3>>,
    <<Form.cachedsel, 4>>, <<Form.cachedsparses, 4>>, <<Form.cachedsust, 5>> }

InitCache ==
  /\ nlhs = 1
  /\ probDim = 3 /\ probAxi = FALSE
  /\ nugComp = 5
  /\ nGrSet = 1
  /\ argCmplx = <<FALSE, FALSE, FALSE>>
  /\ nElt = 1 /\ nEltColl = 1
  /\ nTotalColl = MeshTotalColl(nElt, nEltColl)
  /\ nXi = 1
  /\ sel = NoSelection
  /\ green = "fsgreen3d0" /\ probPeriodic = FALSE /\ paramsOk = TRUE
  /\ grids = [zs |-> <<0>>, r |-> <<0>>, z |-> <<0>>]
  /\ ugdim = <<nugComp, 1, 1, 1, nGrSet>>
  /\ sgdim = <<NtgComp(nugComp), 1, 1, 1, nGrSet>>
  /\ sg0dim = sgdim
  /\ \E c \in SessionCalls : nrhs = c[2] /\ prhsKind = Kinds(c[1], c[2])
  /\ CallEntry /\ LibraryLoaded /\ ModulesLoaded

\* bemmat runs over the mesh arrays it was handed and returns.
BemmatRun ==
  /\ pc = "bemmat"
  /\ pc' = "mex_return"
  /\ UNCHANGED <<modules, session, inputs, sublocals, exception, gateway, cursor, locals, buffers>>

\* static void cleanup(), registered with mexAtExit: CacheValid=false, then
\* if (X!=0){delete [] X;} for every static array; the pointers keep their
\* values.  Releasing memory that was released before is undefined: the
\* process may die there.
cleanup ==
  /\ pc \in {"done", "aborted"}
  /\ CacheValid' = FALSE
  /\ Nod' = Deleted(Nod) /\ Elt' = Deleted(Elt)
  /\ TypeID' = Deleted(TypeID) /\ CollPoints' = Deleted(CollPoints)
  /\ freedTwice' = (freedTwice \/ "freed" \in {Nod.st, Elt.st, TypeID.st, CollPoints.st})
  /\ \/ pc' = "unloaded"
     \/ /\ "freed" \in {Nod.st, Elt.st, TypeID.st, CollPoints.st}
        /\ pc' = "crashed"
  /\ UNCHANGED <<modules, inputs, args, mexlocals, exception, gateway, cursor, locals,
                 sublocals, buffers, nCall, before, loadDone, passed>>

\* The next call of BEMMAT of the session.  After cleanup the library is
\* loaded anew and the statics have their initialisers again.
NextCall ==
  /\ pc \in {"done", "aborted", "unloaded"}
  /\ nCall < MaxCalls
  /\ nCall' = nCall + 1
  /\ IF pc = "unloaded"
     THEN /\ CacheValid' = FALSE
          /\ Nod' = NullArray /\ Elt' = NullArray
          /\ TypeID' = NullArray /\ CollPoints' = NullArray
     ELSE UNCHANGED statics
  /\ before' = <<CacheValid', Nod', Elt', TypeID', CollPoints'>>
  /\ passed' = [Nod |-> NullArray, Elt |-> NullArray, TypeID |-> NullArray,
                CollPoints |-> NullArray]
  /\ \E c \in SessionCalls : nrhs' = c[2] /\ prhsKind' = Kinds(c[1], c[2])
  /\ pc' = "mex"
  /\ TmatOut' = FALSE /\ UmatOut' = TRUE
  /\ ugCmplx' = FALSE /\ tgCmplx' = FALSE /\ tg0Cmplx' = FALSE
  /\ nColDof' = 0 /\ nDof' = 0
  /\ exception' = NoMsg /\ plhs' = NoOutputs
  /\ caller' = [status |-> "running", msg |-> NoMsg, outputs |-> NoOutputs]
  /\ Cache' = FALSE /\ getCache' = FALSE /\ greenPos' = 3
  /\ sArg' = [ms |-> 0, ns |-> 0, s |-> "null"]
  /\ outU' = NoArray /\ outT' = NoArray
  /\ UNCHANGED <<modules, nlhs, probDim, probAxi, nugComp, nGrSet, argCmplx, nElt,
                 nEltColl, nTotalColl, nXi, sel, green, paramsOk, grids, ugdim,
                 sgdim, sg0dim, probPeriodic, loadDone, freedTwice, cursor,
                 locals, sublocals, buffers>>

\* Calls of mexFunction one after the other, the library being cleared
\* between calls now and then.
NextCache ==
  \/ MexValidate \/ MexForm \/ LoadNod \/ LoadElt \/ LoadTyp \/ LoadRest
  \/ MexCacheCheck \/ MexSelection \/ MexDispatch
  \/ FsGreenCheck \/ FsGreenOutputs \/ BemmatRun \/ MexReturn \/ MexCatch
  \/ cleanup \/ NextCall

SpecCache == InitCache /\ [][NextCache]_vars

\* One call of bemintreg3ddiag in subset-selection mode, up to its return
\* or to the handler of its exception.
NextSubset ==
  \/ Reg3dEntry \/ SubPoint \/ SubOffset \/ SubEval \/ SubRotate
  \/ SubSumBlockdiag \/ SubSumSelected \/ SubNextPoint \/ SubReturn
  \/ MexCatch

SpecSubset == InitSubset /\ [][NextSubset]_vars

\* The program runs to completion: the interpreter does not suspend a call.
FairSpec == Init /\ [][Next]_vars /\ WF_vars(Next)

\* ------------------------------------------------------- no call of BEMMAT
\* The routines below are followed on their own: no call of mexFunction is
\* under way, its arguments and locals are at rest, nothing is cached.
NoMexCall ==
  /\ nlhs = 1 /\ nrhs = 6 /\ probDim = 3 /\ probAxi = FALSE /\ nugComp = 5
  /\ nGrSet = 1 /\ argCmplx = <<FALSE, FALSE, FALSE>>
  /\ nTotalColl = MeshTotalColl(nElt, nEltColl) /\ nXi = 1
  /\ sel = NoSelection
  /\ CallLocals /\ LibraryLoaded /\ ConsistentUser
  /\ prhsKind = Kinds(Form.plain, nrhs)

\* ------------------------------------------------------- checklicense.cpp
\* The clock does not pass MaxNow; it advances by one of these steps between
\* two calls.
MaxNow == 14400

ClockSteps == {3599, 3600}

\* what BEMFUNLICENSE('VerifyOnce') returns, cast to int
StatusSet == {-1, 0, 1}

\* Variant of Expired: the status is reset only after more than two hours.
ExpiredLater(t, t0) == t - t0 > 7200

\* if (now-lastVerified>=7200) licenseStatus = -1;
Expired(t, t0) == t - t0 >= 7200

\* void checklicense(): the status is reset when two hours have passed; an
\* unknown status is determined anew: checkintegrity throws when the hash of
\* the file of BEMFUNLICENSE is not the expected one (the reset status stays),
\* otherwise BEMFUNLICENSE is called and its answer and the time are stored.
checklicense ==
  /\ pc = "license"
  /\ \E intact \in BOOLEAN, status \in StatusSet :
       LET reset == IF Expired(now, lastVerified) THEN -1 ELSE licenseStatus
           did(i, l) == [called |-> TRUE, at |-> now, integrity |-> i,
                         license |-> l, intact |-> intact,
                         statusBefore |-> licenseStatus,
                         verifiedBefore |-> lastVerified]
       IN IF reset = -1
          THEN IF intact
               THEN /\ licenseStatus' = status
                    /\ lastVerified' = now
                    /\ lastCall' = did(TRUE, TRUE)
                    /\ UNCHANGED exception
               ELSE /\ licenseStatus' = -1
                    /\ lastCall' = did(TRUE, FALSE)
                    /\ exception' = "BEMFUN license error: the function BEMFUNLICENSE is invalid."
                    /\ UNCHANGED lastVerified
          ELSE /\ lastCall' = did(FALSE, FALSE)
               /\ UNCHANGED <<licenseStatus, lastVerified, exception>>
  /\ UNCHANGED <<now, pc, receivers, tables, flat, session, inputs, gateway, cursor, locals,
                 sublocals, buffers>>

\* Time passes between two calls.
Tick ==
  /\ pc = "license"
  /\ \E d \in ClockSteps : now + d <= MaxNow /\ now' = now + d
  /\ UNCHANGED <<licenseStatus, lastVerified, lastCall, pc, exception,
                 receivers, tables, flat, session, inputs, gateway, cursor, locals,
                 sublocals, buffers>>

\* The calls of checklicense of one session of the library.
InitLicense ==
  /\ pc = "license"
  /\ nElt = 1 /\ nEltColl = 1
  /\ NoMexCall
  /\ ModulesLoaded

NextLicense == checklicense \/ Tick

SpecLicense == InitLicense /\ [][NextLicense]_vars

\* ------------------------------------------------------ boundaryrec3d.cpp
\* Lengths are whole numbers; an element edge has length Unit, so that
\* dist < 0.05*diag is 400*dist^2 < diag^2 and a margin of 0.25*diag is
\* 16*margin^2 = diag^2.
MaxRec == 2

Unit == 20

\* inline double sqr(const double& a)
sqr(a) == a * a

\* The nodes of the elements handed to boundaryRec3d: triangles in the three
\* coordinate planes and one oblique triangle.
EltNodSet ==
  { << <<0, 0, 0>>, <<Unit, 0, 0>>, <<0, Unit, 0>> >>,
    << <<0, 0, 0>>, <<Unit, 0, 0>>, <<0, 0, Unit>> >>,
    << <<0, 0, 0>>, <<0, Unit, 0>>, <<0, Unit, Unit>> >>,
    << <<0, 0, 0>>, <<Unit, 0, 0>>, <<Unit, Unit, Unit>> >> }

\* The positions of the receivers: on a node, beside the element, far away.
RecSet == { <<0, 0, 0>>, <<0, 0, Unit + 1>>, <<5 * Unit, 0, 0>> }

\* The distances recDist3d may return for the clamped point found by fminstep.
Dists == {0, 1, 5 * Unit}

\* eltxMin .. eltzMax before the margin is added: min and max over the nodes
\* of coordinate c
eltMin(EltNod, c) ==
  CHOOSE m \in { EltNod[i][c] : i \in DOMAIN EltNod } :
    \A i \in DOMAIN EltNod : m <= EltNod[i][c]

eltMax(EltNod, c) ==
  CHOOSE m \in { EltNod[i][c] : i \in DOMAIN EltNod } :
    \A i \in DOMAIN EltNod : m >= EltNod[i][c]

\* Variant of Diag2: the diagonal of the bounding box in x, y and z.
BoxDiag2(EltNod) ==
  sqr(eltMax(EltNod, 1) - eltMin(EltNod, 1))
  + sqr(eltMax(EltNod, 2) - eltMin(EltNod, 2))
  + sqr(eltMax(EltNod, 3) - eltMin(EltNod, 3))

\* double diag=sqrt(sqr(eltxMax-eltxMin)+sqr(eltyMax-eltyMin)
\*                                      +sqr(eltyMax-eltyMin));  squared
Diag2(EltNod) ==
  sqr(eltMax(EltNod, 1) - eltMin(EltNod, 1))
  + sqr(eltMax(EltNod, 2) - eltMin(EltNod, 2))
  + sqr(eltMax(EltNod, 2) - eltMin(EltNod, 2))

\* How far coordinate c of point P lies outside the box of the nodes.
Outside(EltNod, P, c) ==
  IF P[c] < eltMin(EltNod, c) THEN eltMin(EltNod, c) - P[c]
  ELSE IF P[c] > eltMax(EltNod, c) THEN P[c] - eltMax(EltNod, c)
  ELSE 0

\* (Rec[0*nRec+iRec]>=eltxMin)&(Rec[0*nRec+iRec]<=eltxMax)& ... with
\* eltxMin=eltxMin-0.25*diag, eltxMax=eltxMax+0.25*diag, ...
NearBox(EltNod, P, diag2) ==
  \A c \in 1..3 : 16 * sqr(Outside(EltNod, P, c)) <= diag2

\* Variant of Matches: a receiver that is already marked is looked at again.
MatchesAgain(marked, inBox, dist, diag2) ==
  inBox /\ 400 * sqr(dist) < diag2

\* if (!(boundaryRec[iRec])) { if (the receiver is near the box)
\*   { ... if (dist<0.05*diag) {
Matches(marked, inBox, dist, diag2) ==
  ~marked /\ inBox /\ 400 * sqr(dist) < diag2

\* TRe[ind0+nRecDof*(colBeg+k)+rowBeg+k] = -M[iEltColl] with
\* ind0=nRecDof*nDof*iGrSet, rowBeg=3*iRec, colBeg=3*EltCollIndex[iEltColl];
\* the caller's T has 3 rows for each receiver and 3 columns for each
\* collocation point.
RecWrites(e, iRec) ==
  { [slot |-> (3 * MaxRec) * (3 * nTotalColl) * g
               + (3 * MaxRec) * (3 * MeshEltCollIndex(nEltColl, e)[k] + j)
               + 3 * iRec + j,
     elt |-> e, rec |-> iRec] :
    k \in 0..(nEltColl - 1), g \in 0..(nGrSet - 1), j \in 0..2 }

\* void boundaryRec3d(...) for element iElt; the driver calls it for the
\* elements of the mesh in turn.  The clamped point of least distance is found
\* by fminstep and recDist3d over the shape functions; the element lies within
\* the box of its nodes, so the distance found is not smaller than the
\* distance of the receiver from that box.
boundaryRec3d ==
  /\ pc = "rec3d"
  /\ iElt < nElt
  /\ \E EltNod \in EltNodSet, dist \in [0..(MaxRec - 1) -> Dists] :
       LET diag2 == Diag2(EltNod)
           hit == { r \in 0..(MaxRec - 1) :
                      Matches(boundaryRec[r], NearBox(EltNod, Rec[r], diag2),
                              dist[r], diag2) }
       IN /\ \A r \in 0..(MaxRec - 1) :
               sqr(dist[r]) >= sqr(Outside(EltNod, Rec[r], 1))
                               + sqr(Outside(EltNod, Rec[r], 2))
                               + sqr(Outside(EltNod, Rec[r], 3))
          /\ boundaryRec' = [r \in 0..(MaxRec - 1) |-> boundaryRec[r] \/ r \in hit]
          /\ TRe' = IF rec3d.TmatOut
                    THEN TRe (+) SetToBag(UNION { RecWrites(iElt, r) : r \in hit })
                    ELSE TRe
          /\ rec3d' = [rec3d EXCEPT
                         !.EltNod = EltNod, !.diag2 = diag2, !.dist = dist,
                         !.near = @ \cup { <<iElt, r>> : r \in
                                    { q \in 0..(MaxRec - 1) :
                                        400 * sqr(dist[q]) < diag2 } }]
  /\ iElt' = iElt + 1
  /\ UNCHANGED <<Rec, pc, exception, license, tables, flat, session, inputs, gateway, iColl,
                 EltCollIndex, RegularColl, locals, sublocals, URe, UIm, TIm>>

\* The driver's loop over the elements of a mesh of MaxElt elements, for
\* receivers none of which is marked.
InitRec3d ==
  /\ pc = "rec3d"
  /\ nElt = MaxElt /\ nEltColl \in 1..MaxEltColl
  /\ NoMexCall
  /\ LicenseLoaded
  /\ loaded = None /\ cached = None /\ flat = None
  /\ Rec \in [0..(MaxRec - 1) -> RecSet]
  /\ boundaryRec = [r \in 0..(MaxRec - 1) |-> FALSE]
  /\ \E T \in BOOLEAN :
       rec3d = [TmatOut |-> T, EltNod |-> <<>>, diag2 |-> 0,
                dist |-> <<>>, near |-> {}]

SpecRec3d == InitRec3d /\ [][boundaryRec3d]_vars

\* ------------------------------------- the mesh tables built by mexFunction
\* Catalogues of up to MaxTypes element types; memory that was never written
\* holds a number up to MaxJunk.
MaxTypes == 2

MaxJunk == 1

Junk == 0..MaxJunk

\* eltdef for type id 1, a triangle of 3 nodes with 3 Gauss points, and for
\* any other id, a quadrilateral of 4 nodes with 2 Gauss points in each
\* direction of its single division.
eltdef(id) ==
  IF id = 1
  THEN [EltParent |-> 1, nEltNod |-> 3, nEltColl |-> 3, nGauss |-> 3, nEltDiv |-> 1]
  ELSE [EltParent |-> 2, nEltNod |-> 4, nEltColl |-> 4, nGauss |-> 2, nEltDiv |-> 1]

\* Variant of Cumul: the offset of an entry is the sum of the counts before it.
CumulBefore(count) ==
  LET c[i \in DOMAIN count] == IF i = 0 THEN 0 ELSE c[i - 1] + count[i - 1]
  IN c

\* ncumulX[0]=0; for (i=1; i<n; i++) ncumulX[i]=ncumulX[i-1]+nX[i];
Cumul(count) ==
  LET c[i \in DOMAIN count] == IF i = 0 THEN 0 ELSE c[i - 1] + count[i]
  IN c

\* NX=ncumulX[n-1]+nX[n-1];
CumulTotal(cumul, count) ==
  LET n == Cardinality(DOMAIN count) IN cumul[n - 1] + count[n - 1]

\* for (iElt) { eltdef(EltType,...); EltParent[iElt]=EltParent_loc; ... }
LoadEltDef ==
  /\ pc = "load_def"
  /\ cached' = [f \in {"EltParent", "nEltNod", "nEltColl", "nGauss", "nEltDiv"} |->
                  [i \in 0..(nElt - 1) |-> eltdef(loaded.EltType[i])[f]]]
  /\ pc' = "load_cumul"
  /\ UNCHANGED <<loaded, exception, license, receivers, flat, session, inputs,
                 gateway, cursor, locals, sublocals, buffers>>

\* ncumulEltCollIndex, NEltCollIndex, ncumulEltNod, NEltNod
LoadCumulElt ==
  /\ pc = "load_cumul"
  /\ cached' = cached @@
       [ncumulEltCollIndex |-> Cumul(cached.nEltColl),
        NEltCollIndex |-> CumulTotal(Cumul(cached.nEltColl), cached.nEltColl),
        ncumulEltNod |-> Cumul(cached.nEltNod),
        NEltNod |-> CumulTotal(Cumul(cached.nEltNod), cached.nEltNod)]
  /\ pc' = "load_sing"
  /\ UNCHANGED <<loaded, exception, license, receivers, flat, session, inputs,
                 gateway, cursor, locals, sublocals, buffers>>

\* nSingularColl[iElt]=nSingularColl_loc as counted by BemRegularColl, then
\* ncumulSingularColl and NSingularColl
LoadSingular ==
  /\ pc = "load_sing"
  /\ cached' = cached @@
       [nSingularColl |-> loaded.nSingularColl,
        ncumulSingularColl |-> Cumul(loaded.nSingularColl),
        NSingularColl |-> CumulTotal(Cumul(loaded.nSingularColl),
                                     loaded.nSingularColl)]
  /\ pc' = "load_ref"
  /\ UNCHANGED <<loaded, exception, license, receivers, flat, session, inputs,
                 gateway, cursor, locals, sublocals, buffers>>

\* The entry of the catalogue at which the inner loop stops for element e:
\* the first one whose id is the type of e.
TypeOfElt(e) ==
  CHOOSE t \in DOMAIN loaded.TypeID :
    /\ loaded.TypeID[t] = loaded.EltType[e]
    /\ \A u \in 0..(t - 1) : loaded.TypeID[u] # loaded.EltType[e]

\* The entries t with GetTypeID[t]==true at the end of the scan, and the
\* element at which each was set: the first element of that type.
Found == { TypeOfElt(e) : e \in 0..(nElt - 1) }

RefElt(t) ==
  CHOOSE e \in 0..(nElt - 1) :
    TypeOfElt(e) = t /\ \A f \in 0..(e - 1) : TypeOfElt(f) # t

\* if (EltParent[iElt] == 1) nXi[iType]=nGauss[iElt]; else if
\* (EltParent[iElt] == 2) nXi[iType]=nEltDiv*nEltDiv*nGauss*nGauss;
RegularXi(e) ==
  IF cached.EltParent[e] = 1 THEN cached.nGauss[e]
  ELSE cached.nEltDiv[e] * cached.nEltDiv[e] * cached.nGauss[e] * cached.nGauss[e]

\* nXi=new unsigned int[nEltType]; RefEltType=new unsigned int[nEltType];
\* the scan over the elements stops after the element at which the last
\* entry of the catalogue was found, or at nElt; iElt keeps that position.
\* The entries not found keep what the memory held.
LoadRefEltType ==
  /\ pc = "load_ref"
  /\ \E junkRef \in [DOMAIN loaded.TypeID -> Junk],
        junkXi \in [DOMAIN loaded.TypeID -> Junk] :
       cached' = cached @@
         [GetTypeID |-> [t \in DOMAIN loaded.TypeID |-> t \in Found],
          RefEltType |-> [t \in DOMAIN loaded.TypeID |->
                            IF t \in Found THEN RefElt(t) ELSE junkRef[t]],
          nXi |-> [t \in DOMAIN loaded.TypeID |->
                     IF t \in Found THEN RegularXi(RefElt(t)) ELSE junkXi[t]],
          iElt |-> IF Found = DOMAIN loaded.TypeID
                   THEN 1 + CHOOSE e \in { RefElt(t) : t \in Found } :
                              \A t \in Found : RefElt(t) <= e
                   ELSE nElt]
  /\ pc' = "load_xi"
  /\ UNCHANGED <<loaded, exception, license, receivers, flat, session, inputs,
                 gateway, cursor, locals, sublocals, buffers>>

\* ncumulnXi[0]=0; for (iType=1; ...) ncumulnXi[iType]=ncumulnXi[iType-1]
\* +nXi[iElt]; NnXi=ncumulnXi[nEltType-1]+nXi[nEltType-1];  nXi[iElt] is read
\* with the element position the scan left: beyond the end of nXi the read
\* yields what the memory holds, or the process dies.
LoadCumulXi ==
  /\ pc = "load_xi"
  /\ LET nEltType == Cardinality(DOMAIN loaded.TypeID)
         inside == nEltType = 1 \/ cached.iElt \in DOMAIN cached.nXi
     IN \/ /\ \E v \in (IF inside /\ nEltType > 1
                        THEN {cached.nXi[cached.iElt]} ELSE Junk) :
                cached' = cached @@
                  [ncumulnXi |-> [t \in DOMAIN loaded.TypeID |-> t * v],
                   NnXi |-> (nEltType - 1) * v + cached.nXi[nEltType - 1]]
           /\ pc' = "load_shape"
        \/ /\ ~inside
           /\ pc' = "crashed"
           /\ UNCHANGED cached
  /\ UNCHANGED <<loaded, exception, license, receivers, flat, session, inputs,
                 gateway, cursor, locals, sublocals, buffers>>

\* ncumulNshape[iType]=ncumulNshape[iType-1]+nXi[iType]*nEltNod[RefEltType[
\* iType]]; NNshape likewise.  A RefEltType that was never set may point
\* beyond the end of nEltNod.
LoadCumulNshape ==
  /\ pc = "load_shape"
  /\ LET inside == \A t \in DOMAIN loaded.TypeID :
                     cached.RefEltType[t] \in 0..(nElt - 1)
     IN \/ /\ \E nodes \in [DOMAIN loaded.TypeID ->
                            Junk \cup { cached.nEltNod[e] : e \in 0..(nElt - 1) }] :
                /\ \A t \in DOMAIN loaded.TypeID :
                     IF cached.RefEltType[t] \in 0..(nElt - 1)
                     THEN nodes[t] = cached.nEltNod[cached.RefEltType[t]]
                     ELSE nodes[t] \in Junk
                /\ LET nNshape == [t \in DOMAIN loaded.TypeID |->
                                     cached.nXi[t] * nodes[t]]
                   IN cached' = cached @@
                        [nNshape |-> nNshape,
                         ncumulNshape |-> Cumul(nNshape),
                         NNshape |-> CumulTotal(Cumul(nNshape), nNshape)]
           /\ pc' = "load_done"
        \/ /\ ~inside
           /\ pc' = "crashed"
           /\ UNCHANGED cached
  /\ UNCHANGED <<loaded, exception, license, receivers, flat, session, inputs,
                 gateway, cursor, locals, sublocals, buffers>>

\* The catalogues: up to MaxTypes distinct ids in any order; the meshes: up to
\* MaxElt elements of types of the catalogue, each with one or two singular
\* collocation points.
InitLoad ==
  /\ pc = "load_def"
  /\ nElt \in 1..MaxElt /\ nEltColl = 1
  /\ NoMexCall
  /\ LicenseLoaded
  /\ Rec = <<>> /\ boundaryRec = <<>> /\ rec3d = None
  /\ cached = None /\ flat = None
  /\ \E k \in 1..MaxTypes :
       \E cat \in { c \in [0..(k - 1) -> 1..MaxTypes] :
                     \A t, u \in 0..(k - 1) : t # u => c[t] # c[u] } :
         \E et \in [0..(nElt - 1) -> { cat[t] : t \in 0..(k - 1) }],
            ns \in [0..(nElt - 1) -> 1..2] :
           loaded = [EltType |-> et, TypeID |-> cat, nSingularColl |-> ns]

NextLoad ==
  \/ LoadEltDef \/ LoadCumulElt \/ LoadSingular \/ LoadRefEltType
  \/ LoadCumulXi \/ LoadCumulNshape

SpecLoad == InitLoad /\ [][NextLoad]_vars

\* ------------------------------------- the index of an accumulation statement
\* Numbers beyond the range of a machine word: MaxLimbs digits of base Byte,
\* the least significant first.
Byte == 256

MaxLimbs == 10

RECURSIVE Limbs(_, _)
Limbs(x, n) ==
  IF n = 0 THEN <<>> ELSE <<x % Byte>> \o Limbs(x \div Byte, n - 1)

Wide(x) == Limbs(x, MaxLimbs)

RECURSIVE Carry(_, _)
Carry(raw, c) ==
  IF raw = <<>> THEN <<>>
  ELSE <<(Head(raw) + c) % Byte>> \o Carry(Tail(raw), (Head(raw) + c) \div Byte)

WideAdd(a, b) == Carry([i \in 1..MaxLimbs |-> a[i] + b[i]], 0)

RECURSIVE Column(_, _, _, _)
Column(a, b, i, j) ==
  IF j = 0 THEN 0 ELSE a[j] * b[i - j + 1] + Column(a, b, i, j - 1)

WideMul(a, b) == Carry([i \in 1..MaxLimbs |-> Column(a, b, i, i)], 0)

\* the bytes of an unsigned int
UintBytes == 4

\* the value a word of w bytes keeps of a result: its w low bytes
Keep(a, w) == [i \in 1..MaxLimbs |-> IF i <= w THEN a[i] ELSE 0]

\* the value an unsigned int keeps of a result
Uint(a) == Keep(a, UintBytes)

\* unsigned int rowBeg=nColDof*iColl; unsigned int
\* colBeg=nColDof*EltCollIndex[iEltColl]; unsigned int ind0=nDof*nDof*iGrSet;
\* and the index ind0+nDof*(colBeg+k)+rowBeg+j of URe, every operation with
\* the result a word of w bytes keeps.
IndexOf(w, nD, nCD, iC, jC, g, k, j) ==
  LET W(x) == Keep(x, w)
      rowBeg == W(WideMul(nCD, iC))
      colBeg == W(WideMul(nCD, jC))
      ind0 == W(WideMul(W(WideMul(nD, nD)), g))
      col == W(WideMul(nD, W(WideAdd(colBeg, k))))
  IN W(WideAdd(W(WideAdd(W(WideAdd(ind0, col)), rowBeg)), j))

\* uint64 nDof=nColDof*nTotalColl; the product of two unsigned int, widened
\* after it is computed.
IntegrateDof ==
  /\ pc = "ix_dof"
  /\ flat' = [flat EXCEPT
                !.nDof = Uint(WideMul(Wide(flat.nColDof), Wide(flat.nTotalColl)))]
  /\ pc' = "ix_entry"
  /\ UNCHANGED <<exception, license, receivers, tables, session, inputs,
                 gateway, cursor, locals, sublocals, buffers>>

\* The body of for (iGrSet=0; iGrSet<nGrSet; iGrSet++): ind0 and the indices
\* of the nColDof x nColDof accumulation statements of one Green set.
Accumulate ==
  /\ pc = "ix_entry"
  /\ flat.iGrSet < flat.nGrSet
  /\ flat' = [flat EXCEPT
                !.ind = [e \in (0..(flat.nColDof - 1)) \X (0..(flat.nColDof - 1)) |->
                           IndexOf(UintBytes, flat.nDof, Wide(flat.nColDof),
                                   Wide(flat.iColl), Wide(flat.EltCollIndex),
                                   Wide(flat.iGrSet), Wide(e[1]), Wide(e[2]))],
                !.iGrSet = @ + 1]
  /\ UNCHANGED <<pc, exception, license, receivers, tables, session, inputs,
                 gateway, cursor, locals, sublocals, buffers>>

\* the numbers of collocation points: small meshes, and the meshes at which
\* nDof*nDof, resp. nColDof*nTotalColl, passes the range of an unsigned int
CollCounts == {1, 2, 21845, 21846, 1431655765, 1431655766}

\* A pair of collocation points, the first or the last of the mesh each, of
\* a mesh with one to three degrees of freedom per point and up to MaxGrSet
\* Green sets.
InitIndex ==
  /\ pc = "ix_dof"
  /\ nElt = 1 /\ nEltColl = 1
  /\ NoMexCall
  /\ LicenseLoaded
  /\ Rec = <<>> /\ boundaryRec = <<>> /\ rec3d = None
  /\ loaded = None /\ cached = None
  /\ \E n \in 1..3, t \in CollCounts, g \in 1..MaxGrSet :
       \E i, c \in {0, t - 1} :
         flat = [nColDof |-> n, nTotalColl |-> t, nGrSet |-> g, iColl |-> i,
                 EltCollIndex |-> c, nDof |-> Wide(0), iGrSet |-> 0,
                 ind |-> <<>>]

NextIndex == IntegrateDof \/ Accumulate

SpecIndex == InitIndex /\ [][NextIndex]_vars

\* ============================================================== properties
\* Vocabulary.  Nodes of element e; whether the pair (e, p) is integrated in
\* this run (2D: the points singular for e; 3D: the points regular for e).
EltNodes(e) == { MeshEltCollIndex(nEltColl, e)[k] : k \in 0..(nEltColl - 1) }

Integrated(e, p) ==
  IF probAxi THEN FALSE
  ELSE IF probDim = 2 THEN p \in EltNodes(e) ELSE p \notin EltNodes(e)

\* The triples <<element, collocation point, quadrature point>> whose
\* accumulation loop has been executed.
SummedPoints ==
  { t \in (0..(nElt - 1)) \X (0..(nTotalColl - 1)) \X (0..(nXi - 1)) :
      /\ Integrated(t[1], t[2])
      /\ \/ t[1] < iElt
         \/ t[1] = iElt /\ t[2] < iColl
         \/ t[1] = iElt /\ t[2] = iColl /\ t[3] < iXi }

\* Kernel components per Green set, and the column-major flat index.
CompCount == IF probDim = 3 THEN 9 ELSE nugComp

Flat(row, col, set) == row + nDof * col + nDof * nDof * set

FlatOf(slot) == Half * slot[1] + slot[2]

\* The entries of bag B written from kernel buffer ker.
KernelPart(B, ker) == [ e \in { x \in DOMAIN B : x.ker = ker } |-> B[e] ]

AllEntries == DOMAIN URe \cup DOMAIN UIm \cup DOMAIN TRe \cup DOMAIN TIm

DiagKernels == {"TXi0Re", "TXi0Im"}

\* The statement that adds component (i, j) of kernel buffer ker, evaluated
\* for the summed point t, with the weight of node k, to block (p, node k).
FarEntry(ker, rotated, t, k, g, i, j) ==
  [ slot |-> U32(Flat(nColDof * t[2] + i,
                      nColDof * MeshEltCollIndex(nEltColl, t[1])[k] + j, g)),
    sgn |-> 1, ker |-> ker, idx |-> CompCount * g + nColDof * i + j,
    at |-> IF rotated THEN <<t[2], t[3], t[3]>> ELSE <<t[2], t[3]>>,
    elt |-> t[1], xi |-> t[3], node |-> k ]

FarEntries(ker, rotated) ==
  { FarEntry(ker, rotated, t, k, g, i, j) :
      t \in SummedPoints, k \in 0..(nEltColl - 1), g \in 0..(nGrSet - 1),
      i \in 0..(nColDof - 1), j \in 0..(nColDof - 1) }

\* C1: in bemintsing2d a quadrature point whose offset from the collocation
\* point is exactly zero makes the routine throw the coincidence error; the
\* throw leaves the kernel buffers and the output matrices as they were, and
\* the kernel is evaluated and summed only for points with a nonzero offset.
C1_CoincidentPointThrows ==
  [][ /\ (pc = "sing_check" /\ Xdiff = 0 /\ Zdiff = 0)
         => /\ pc' = "catch" /\ exception' = CoincideMsg
            /\ gr' = gr /\ rot' = rot /\ buffers' = buffers
      /\ (pc' \in {"sing_eval", "sing_rotate", "sing_sum"})
         => ~(Xdiff' = 0 /\ Zdiff' = 0)
      /\ (pc \in {"sing_check", "sing_eval", "sing_rotate", "sing_sum"}
          /\ (gr' # gr \/ buffers' # buffers))
         => ~(Xdiff = 0 /\ Zdiff = 0) ]_vars

\* C1 witness: the second quadrature point coincides, after the first one
\* has been accumulated, and the error is thrown with the kernel buffers
\* still holding the first point.
C1_Witness ==
  /\ pc = "catch" /\ exception = CoincideMsg
  /\ Xdiff = 0 /\ Zdiff = 0 /\ iXi = 1
  /\ gr = <<iColl, 0>>
  /\ BagCardinality(URe) > 0

\* C2: once an exception is thrown the only step left is the abort: it
\* changes no buffer, cursor or local, reports the message to the caller and
\* hands back no output; outputs are handed back only by a run without
\* exception; and a thrown exception always leads to the abort.
C2_ErrorAbortsAssembly ==
  /\ [][ exception # NoMsg
         => /\ pc = "catch" /\ pc' = "aborted"
            /\ buffers' = buffers /\ cursor' = cursor /\ locals' = locals
            /\ caller' = [status |-> "error", msg |-> exception,
                          outputs |-> NoOutputs] ]_vars
  /\ [](caller.outputs # NoOutputs
        => caller.status = "returned" /\ exception = NoMsg)
  /\ [](caller.status = "error" => caller.msg = exception /\ exception # NoMsg)
  /\ ((exception # NoMsg) ~> (pc = "aborted"))

\* C2 witness: the run is aborted with accumulated contributions in U and T
\* and the caller holds the message and no output.
C2_Witness ==
  /\ pc = "aborted"
  /\ BagCardinality(URe) > 0 /\ BagCardinality(TRe) > 0
  /\ caller.status = "error" /\ caller.outputs = NoOutputs
  /\ caller.msg = CoincideMsg

\* C3: for every summed (element, collocation point, quadrature point), every
\* node, Green set and component pair, U holds exactly one statement adding
\* the matching kernel component with the weight of (quadrature point, node)
\* to the slot of (row of the point, column of the node), and nothing else;
\* T holds exactly these statements of the traction kernel when T is
\* requested and none otherwise; likewise for the imaginary parts.
C3_EveryContributionOnce ==
  /\ URe = SetToBag(FarEntries(IF probDim = 3 THEN "UXiRe" ELSE "UgrRe",
                               probDim = 3))
  /\ UIm = IF ugCmplx
           THEN SetToBag(FarEntries(IF probDim = 3 THEN "UXiIm" ELSE "UgrIm",
                                    probDim = 3))
           ELSE EmptyBag
  /\ KernelPart(TRe, "TXiRe") =
       IF TmatOut THEN SetToBag(FarEntries("TXiRe", TRUE)) ELSE EmptyBag
  /\ KernelPart(TIm, "TXiIm") =
       IF TmatOut /\ tgCmplx THEN SetToBag(FarEntries("TXiIm", TRUE))
       ELSE EmptyBag

\* C3 witness: a complete 2D assembly with traction, two nodes per element,
\* two quadrature points, two Green sets and four kernel components.
C3_Witness ==
  /\ pc = "done" /\ probDim = 2 /\ TmatOut
  /\ nugComp = 4 /\ nEltColl = 2 /\ nXi = 2 /\ nGrSet = 2
  /\ BagCardinality(TRe) > BagCardinality(URe)

\* The T0 subtractions held by T, and what identifies one: the element, the
\* evaluation (point, quadrature point, normal), the component of the kernel
\* buffer, and the node whose weight it carries.
T0Subtractions == KernelPart(TRe, "TXi0Re")

T0Key(e) == <<e.elt, e.at, e.idx>>

T0KeyValid(e) ==
  /\ e.sgn = -1
  /\ <<e.elt, e.at[1], e.at[2]>> \in SummedPoints
  /\ e.at[3] = e.at[2] /\ e.xi = e.at[2]
  /\ e.idx \in 0..(CompCount * nGrSet - 1)
  /\ e.node \in 0..(nEltColl - 1)

\* C4 as stated: with traction requested, every summed quadrature point has,
\* for each Green set and component, exactly one T0 subtraction.
C4_OncePerQuadraturePoint ==
  TmatOut =>
    /\ \A e \in DOMAIN T0Subtractions : T0KeyValid(e)
    /\ BagCardinality(T0Subtractions) =
         Cardinality(SummedPoints) * nGrSet * CompCount
    /\ Cardinality({ T0Key(e) : e \in DOMAIN T0Subtractions }) =
         Cardinality(SummedPoints) * nGrSet * CompCount

\* C4 amended: with traction requested, every summed quadrature point has,
\* for each Green set and component, exactly one T0 subtraction per
\* collocation node of the element, carrying the weight of that node (hence
\* nEltColl of them per quadrature point), and T holds no other T0
\* subtraction; without traction T holds none.
C4_OncePerPointAndNode ==
  LET expected == IF TmatOut
                  THEN Cardinality(SummedPoints) * nGrSet * CompCount * nEltColl
                  ELSE 0
  IN /\ \A e \in DOMAIN T0Subtractions : T0KeyValid(e)
     /\ BagCardinality(T0Subtractions) = expected
     /\ Cardinality({ <<T0Key(e), e.node>> : e \in DOMAIN T0Subtractions })
          = expected

\* C4 witness: traction requested, two nodes per element, the 3D regular
\* path has summed a quadrature point.
C4_Witness ==
  /\ TmatOut /\ nEltColl = 2 /\ probDim = 3
  /\ SummedPoints # {}
  /\ BagCardinality(T0Subtractions) > 0

\* Row, column and Green set addressed by an entry; collocation point and
\* component pair it was computed for.
RowOf(e) == FlatOf(e.slot) % nDof

ColOf(e) == (FlatOf(e.slot) \div nDof) % nDof

SetOf(e) == FlatOf(e.slot) \div (nDof * nDof)

PointOf(e) == e.at[1]

CompI(e) == (e.idx % CompCount) \div nColDof

CompJ(e) == (e.idx % CompCount) % nColDof

T0Entries == { e \in DOMAIN TRe \cup DOMAIN TIm : e.ker \in DiagKernels }

\* The T0 term of point p goes to the diagonal block of p, component (i, j)
\* to row offset i and column offset j.
T0InDiagonalBlock ==
  \A e \in T0Entries :
    /\ e.sgn = -1
    /\ e.slot = U32(Flat(nColDof * PointOf(e) + CompI(e),
                         nColDof * PointOf(e) + CompJ(e),
                         e.idx \div CompCount))

\* C5 as stated: the T0 term goes to the diagonal block of p only and never
\* into the column block of a collocation node of the element.
C5_NeverInElementColumns ==
  /\ T0InDiagonalBlock
  /\ \A e \in T0Entries : (ColOf(e) \div nColDof) \notin EltNodes(e.elt)

\* C5 amended: the T0 term goes to the diagonal block of p only, component
\* (i, j) to row offset i and column offset j, whichever node the weight
\* belongs to; that column block is the one of a node of the element exactly
\* when p is itself that node (the singular path), never in the regular path.
C5_OnlyDiagonalBlock ==
  /\ T0InDiagonalBlock
  /\ \A e \in T0Entries :
       /\ ColOf(e) \div nColDof = PointOf(e)
       /\ RowOf(e) \div nColDof = PointOf(e)
       /\ (probDim = 3 => PointOf(e) \notin EltNodes(e.elt))
       /\ (probDim = 2 => PointOf(e) \in EltNodes(e.elt))

\* C5 witness: a T0 statement weighted by a node other than the collocation
\* point itself, in the singular path.
C5_Witness ==
  \E e \in T0Entries :
    /\ probDim = 2
    /\ MeshEltCollIndex(nEltColl, e.elt)[e.node] # PointOf(e)
    /\ CompI(e) # CompJ(e)

SubsetEntries == DOMAIN TRe \cup DOMAIN TIm

RowIndexOf(e) ==
  CHOOSE i \in DOMAIN sel.uniquescolli : sel.uniquescolli[i] = e.at[1]

\* C6: in subset-selection mode no statement on T is executed for a component
\* of a selected row point whose inddiag entry is -1, in either branch.
C6_SentinelDropped ==
  \A e \in SubsetEntries : sel.inddiag[9 * RowIndexOf(e) + (e.idx % 9)] # -1

\* The statements dense mode executes on T[3p+i, 3p+j] of Green set g for this
\* element and the regular point p, c = 3*i+j: one per quadrature point and
\* node, subtracting component 9*g+c of the static kernel.
DenseDiagTerms(p, g, c) ==
  { [ker |-> "TXi0Re", idx |-> 9 * g + c, at |-> <<p, x, x>>, xi |-> x,
     node |-> k] : x \in 0..(nXi - 1), k \in 0..(nEltColl - 1) }

\* The statements subset mode has executed on a slot of T.
SubsetTermsAt(slot) ==
  { [ker |-> e.ker, idx |-> e.idx, at |-> e.at, xi |-> e.xi, node |-> e.node] :
      e \in { x \in DOMAIN TRe : x.slot = slot } }

\* C7: when the call has returned, for every regular selected row point and
\* every diagonal component mapped to a slot, the slot has received exactly
\* the T0 statements that dense mode executes on T[3p+i, 3p+j].
C7_SubsetEqualsDense ==
  pc = "returned" =>
    \A i \in DOMAIN sel.uniquescolli : \A g \in 0..(nGrSet - 1) : \A c \in 0..8 :
      (RegularColl[sel.uniquescolli[i]] = 1 /\ sel.inddiag[9 * i + c] # -1)
        => /\ SubsetTermsAt(U32(sel.ms * sel.ns * g + sel.inddiag[9 * i + c]))
                = DenseDiagTerms(sel.uniquescolli[i], g, c)
           /\ \A e \in DOMAIN TRe : TRe[e] = 1

\* C8: in subset-selection mode every statement is a subtraction from a slot
\* inside T of the form ms*ns*set + inddiag[9*i + 3*compI + compJ], of
\* component 9*set + 3*compI + compJ of the static kernel with the weight of
\* its quadrature point and node; nothing is executed on U.
C8_OnlyMappedSlots ==
  /\ URe = EmptyBag /\ UIm = EmptyBag
  /\ \A e \in SubsetEntries :
       LET i == RowIndexOf(e)
           g == e.idx \div 9
           ci == (e.idx % 9) \div 3
           cj == e.idx % 3
       IN /\ e.sgn = -1 /\ e.ker \in DiagKernels
          /\ g < nGrSet /\ e.node < nEltColl /\ e.xi < nXi
          /\ e.at = <<sel.uniquescolli[i], e.xi, e.xi>>
          /\ e.slot = U32(sel.ms * sel.ns * g + sel.inddiag[9 * i + 3 * ci + cj])
          /\ SlotBelow(e.slot, sel.ms * sel.ns * nGrSet)

\* ------------------------------------------- complex and absent buffers
\* C12: the imaginary part of T is written only if T was created complex
\* (tgCmplx; the problems of this specification are not periodic), and the
\* imaginary part of U only if U was created complex (ugCmplx).
C12_ImaginaryOnlyIfComplex ==
  /\ (TIm # EmptyBag => tgCmplx)
  /\ (UIm # EmptyBag => ugCmplx)

\* C13: when traction is not requested no statement is executed on T.
C13_NoTractionNoTWrite ==
  ~TmatOut => (TRe = EmptyBag /\ TIm = EmptyBag)

\* ------------------------------------------------ claims on the gateway
\* The call brings its own mesh and passes s (or su and st) ahead of the
\* kernel name.
SelectionPassed == ~mxIsChar(prhsKind[4])

\* an empty su and st are passed: only T is wanted
OnlySt == SelectionPassed /\ ~mxIsChar(prhsKind[5])

\* nDof x nDof without s, the size of s with it (of st when su is passed)
ExpectedLead ==
  IF SelectionPassed THEN <<MaxSel, MaxSel + 1>> ELSE <<nDof, nDof>>

\* the Green-set dimensions of the running kernel
ExpectedGreenDim ==
  IF green = "user" THEN GreenDim(ugdim) ELSE FsGreenDim(green)

\* C11 as stated: U and T have the leading dimensions nDof x nDof without s
\* and ms x ns with s, then the Green-set dimensions, then the wavenumber
\* count for a periodic problem; nDof = nColDof * number of collocation points.
C11_LeadingDimsEveryFamily ==
  pc = "bemmat" =>
    /\ nDof = nColDof * nTotalColl
    /\ outU.dims = ExpectedLead \o ExpectedGreenDim \o WaveDim
    /\ (TmatOut => outT.dims = ExpectedLead \o ExpectedGreenDim \o WaveDim)

\* C11 amended: T always has these dimensions, U has them unless only st is
\* passed to 'user' or 'fsgreen3d0' (U is then 0 x 0 x ...); the wavenumber
\* count is appended only by 'user', 'fsgreen3d' and 'fsgreen3d0'.
C11_LeadingDims ==
  pc = "bemmat" =>
    LET wave == IF green \in {"user", "fsgreen3d", "fsgreen3d0"}
                THEN WaveDim ELSE <<>>
        lead == IF OnlySt /\ green \in {"user", "fsgreen3d0"}
                THEN <<0, 0>> ELSE ExpectedLead
    IN /\ nDof = nColDof * nTotalColl
       /\ outU.made /\ outT.made = TmatOut
       /\ outU.dims = lead \o ExpectedGreenDim \o wave
       /\ (TmatOut => outT.dims = ExpectedLead \o ExpectedGreenDim \o wave)

\* the outputs of a call with s and of a call with st only were created
C11_Witness ==
  /\ pc = "bemmat" /\ green = "user" /\ TmatOut
  /\ mxIsChar(prhsKind[6])
  /\ outU.dims = <<0, 0, MaxGrSet>>
  /\ outT.dims = <<MaxSel, MaxSel + 1, MaxGrSet>>

\* the kernel's Integrate routine was entered
Dispatched == passed.Nod.st # "null"

\* some point of the grid is not larger than the one before it
NotIncreasing(g) == \E k \in 2..Len(g) : g[k - 1] >= g[k]

\* the message for the first of zs, r, z that is not increasing
FirstGridMessage ==
  "Input argument '" \o
  (IF NotIncreasing(grids.zs) THEN "zs"
   ELSE IF NotIncreasing(grids.r) THEN "r" ELSE "z") \o
  "' must be monotonically increasing."

\* C14: a 'user' call whose argument count and zs are accepted is rejected
\* with the 'must be monotonically increasing' error of the first grid that
\* has an adjacent pair grid[k-1] >= grid[k], equal values included, and
\* never goes on with such a grid; a grid of one point never causes the error.
C14_GridsStrictlyIncreasing ==
  LET bad == NotIncreasing(grids.zs) \/ NotIncreasing(grids.r)
             \/ NotIncreasing(grids.z)
  IN (green = "user" /\ Dispatched) =>
       /\ (pc \in {"user_out", "bemmat"} => ~bad)
       /\ (/\ pc = "aborted" /\ bad /\ paramsOk /\ ~probPeriodic
           /\ nrhs >= greenPos + 5 /\ nrhs <= greenPos + 7
           => caller.msg = FirstGridMessage)
       /\ \A n \in {"zs", "r", "z"} :
            (/\ pc = "aborted"
             /\ caller.msg = "Input argument '" \o n \o "' must be monotonically increasing."
             => Len(grids[n]) > 1 /\ NotIncreasing(grids[n]))

\* a call was rejected for a grid r with two equal neighbours
C14_Witness ==
  /\ pc = "aborted" /\ green = "user"
  /\ caller.msg = "Input argument 'r' must be monotonically increasing."
  /\ \E k \in 2..Len(grids.r) : grids.r[k - 1] = grids.r[k]
  /\ Len(grids.zs) = 1 /\ Len(grids.z) = 1

DocumentedCall ==
  /\ green \in Families /\ ~probPeriodic
  /\ \E form \in {Form.plain, Form.sel} :
       /\ nrhs = NamePos(form) + 1 + DocParams(green)
       /\ prhsKind = Kinds(form, nrhs)

\* C16: a call BEMMAT(nod,elt,typ,green,<parameters>) or
\* BEMMAT(nod,elt,typ,s,green,<parameters>) with the documented parameters
\* of the kernel is never rejected for its number of arguments.
C16_DocumentedFormsAccepted ==
  (DocumentedCall /\ pc \in {"catch", "aborted"}) =>
    exception \notin {WrongNumberMsg, TooManyInMsg, TooFewMsg}

\* ------------------------------------------------ claims on the session
\* the control states inside an Integrate routine and the driver
Integrating == pc \in {"integrate", "user_out", "fs_green", "fs_out", "bemmat"}

CacheComplete ==
  /\ loadDone > 0
  /\ \A a \in {Nod, Elt, TypeID, CollPoints} : a = Fresh(loadDone)

\* C18: a call with a mesh that fails before its load has run to the end
\* leaves CacheValid and the cached arrays as they were at its entry, and
\* CacheValid holds only with arrays of a completed load.
C18_FailedLoadLeavesCache ==
  /\ (~getCache /\ pc = "aborted" /\ loadDone # nCall
      => <<CacheValid, Nod, Elt, TypeID, CollPoints>> = before)
  /\ (CacheValid /\ pc \in {"done", "aborted"} => CacheComplete)

\* C19: no static array is released twice and no Integrate routine is
\* handed an array that has been released.
C19_NoDoubleFreeNoUseAfterFree ==
  /\ ~freedTwice
  /\ \A a \in {passed.Nod, passed.Elt, passed.TypeID, passed.CollPoints} :
       a.st # "freed"

\* C20: a call on the cache (until the library is cleared) leaves the statics as they were at its entry,
\* and the Integrate routine it enters is handed the arrays of the load that
\* ran to its end last.
C20_CacheCallSeesLastLoad ==
  (getCache /\ pc \notin {"unloaded", "crashed"}) =>
    /\ <<CacheValid, Nod, Elt, TypeID, CollPoints>> = before
    /\ (Dispatched =>
          /\ loadDone > 0
          /\ \A a \in {passed.Nod, passed.Elt, passed.TypeID, passed.CollPoints} :
               a = Fresh(loadDone))

\* ---------------------------------------------------------------- C29
\* The most recent call of checklicense found a known status, verified at
\* verifiedBefore.
KnownBefore == lastCall.called /\ lastCall.statusBefore # -1

\* C29 (as stated): after a verification at t0 = lastVerified that recorded a
\* status other than -1, a call of checklicense less than 7200 seconds later
\* performs neither the integrity check nor the call of BEMFUNLICENSE and
\* keeps licenseStatus and lastVerified; a call 7200 seconds later or more
\* performs both.
C29_ReverifiesBothAfterTwoHours ==
  KnownBefore =>
    IF lastCall.at - lastCall.verifiedBefore < 7200
    THEN /\ ~lastCall.integrity /\ ~lastCall.license
         /\ licenseStatus = lastCall.statusBefore
         /\ lastVerified = lastCall.verifiedBefore
    ELSE lastCall.integrity /\ lastCall.license

\* C29 (amended): after a verification at t0 = lastVerified that recorded a
\* status other than -1, a call of checklicense less than 7200 seconds later
\* performs neither the integrity check nor the call of BEMFUNLICENSE and
\* keeps licenseStatus and lastVerified; a call 7200 seconds later or more
\* performs the integrity check, and the call of BEMFUNLICENSE exactly if the
\* integrity check passes: if it fails the call ends with the license error,
\* licenseStatus is -1 and lastVerified is kept.
C29_ReverifiesAfterTwoHours ==
  KnownBefore =>
    IF lastCall.at - lastCall.verifiedBefore < 7200
    THEN /\ ~lastCall.integrity /\ ~lastCall.license
         /\ licenseStatus = lastCall.statusBefore
         /\ lastVerified = lastCall.verifiedBefore
    ELSE /\ lastCall.integrity
         /\ lastCall.license = lastCall.intact
         /\ (~lastCall.intact =>
               licenseStatus = -1 /\ lastVerified = lastCall.verifiedBefore)

\* A call exactly 7200 seconds after the verification that asks BEMFUNLICENSE.
C29_Witness ==
  /\ KnownBefore
  /\ lastCall.at - lastCall.verifiedBefore = 7200
  /\ lastCall.license

\* ---------------------------------------------------------------- C27
\* The receiver whose rows of T hold the slot of write w, and the first
\* element near receiver r among the calls made so far.
RowRec(w) == (w.slot % (3 * MaxRec)) \div 3

FirstNear(r) ==
  CHOOSE e \in 0..(nElt - 1) :
    <<e, r>> \in rec3d.near /\ \A f \in 0..(e - 1) : <<f, r>> \notin rec3d.near

\* C27: over the calls of boundaryRec3d for the elements of a mesh,
\* boundaryRec[r] only changes from false to true; a receiver is marked exactly
\* if some element so far had its clamped closest point nearer than 0.05*diag;
\* the T entries of its rows are written once, all by the first such element,
\* and the rows of an unmarked receiver are not written.
C27_MarkedOnceByFirstElement ==
  /\ [](pc = "rec3d" =>
         \A r \in 0..(MaxRec - 1) :
           /\ boundaryRec[r] <=> \E e \in 0..(nElt - 1) : <<e, r>> \in rec3d.near
           /\ \A w \in DOMAIN TRe :
                RowRec(w) = r =>
                  /\ boundaryRec[r]
                  /\ w.elt = FirstNear(r)
                  /\ TRe[w] = 1)
  /\ [][pc = "rec3d" =>
          \A r \in 0..(MaxRec - 1) : boundaryRec[r] => boundaryRec'[r]]_vars

\* Two elements in turn were near the same receiver, and T was written.
C27_Witness ==
  /\ pc = "rec3d" /\ iElt = 2
  /\ \E r \in 0..(MaxRec - 1) :
       /\ <<0, r>> \in rec3d.near /\ <<1, r>> \in rec3d.near
       /\ \E w \in DOMAIN TRe : RowRec(w) = r

\* ---------------------------------------------------------------- C30
\* C30: after a call of boundaryRec3d the length diag is the diagonal of the
\* bounding box of the element's nodes in x, y and z:
\* diag^2 = (xMax-xMin)^2 + (yMax-yMin)^2 + (zMax-zMin)^2.
C30_DiagIsBoxDiagonal ==
  (pc = "rec3d" /\ iElt > 0) => rec3d.diag2 = BoxDiag2(rec3d.EltNod)

\* ---------------------------------------------------------------- C21
\* C21: after a mesh load every cumulative offset array (ncumulEltCollIndex,
\* ncumulEltNod, ncumulSingularColl over the elements; ncumulnXi, ncumulNshape
\* over the element types) is the exclusive prefix sum of its count array:
\* offset[i] is the sum of count[j] for j < i.
C21_OffsetsArePrefixSums ==
  pc = "load_done" =>
    /\ cached.ncumulEltCollIndex = CumulBefore(cached.nEltColl)
    /\ cached.ncumulEltNod = CumulBefore(cached.nEltNod)
    /\ cached.ncumulSingularColl = CumulBefore(cached.nSingularColl)
    /\ cached.ncumulnXi = CumulBefore(cached.nXi)
    /\ cached.ncumulNshape = CumulBefore(cached.nNshape)

\* ---------------------------------------------------------------- C22
\* C22: after a mesh load, for every entry t of the catalogue RefEltType[t]
\* and nXi[t] are assigned: RefEltType[t] is the first element whose type id
\* is TypeID[t], nXi[t] is that element's number of regular quadrature points.
C22_EveryTypeHasReference ==
  pc \in {"load_xi", "load_shape", "load_done"} =>
    \A t \in DOMAIN loaded.TypeID :
      /\ cached.GetTypeID[t]
      /\ \E e \in 0..(nElt - 1) :
           /\ loaded.EltType[e] = loaded.TypeID[t]
           /\ \A f \in 0..(e - 1) : loaded.EltType[f] # loaded.TypeID[t]
           /\ cached.RefEltType[t] = e
           /\ cached.nXi[t] = RegularXi(e)

\* ---------------------------------------------------------------- C26
\* C26: in bemintsing2d, for the horizontal offset Xdiff of every quadrature
\* point, Xsgn = sign(Xdiff) is +1 or -1 and never 0, xiR = fabs(Xdiff) is
\* not negative, and Xsgn * xiR = Xdiff.
C26_SignedRadialExact ==
  pc \in {"sing_check", "sing_eval", "sing_rotate", "sing_sum"} =>
    /\ sign(Xdiff) \in {1, -1}
    /\ fabs(Xdiff) >= 0
    /\ sign(Xdiff) * fabs(Xdiff) = Xdiff

\* The kernel is evaluated at a quadrature point straight above the
\* collocation point (Xdiff = 0), and at one to its left.
C26_Witness ==
  /\ pc = "sing_eval"
  /\ Xdiff = 0 /\ Zdiff # 0

\* ---------------------------------------------------------------- C24
\* C24 (dense mode): every statement of bemintreg3ddiag on U or T for element
\* e addresses a row of a collocation point that is regular for e; the rows of
\* the other points are left as they were.
C24_DenseRowsOfRegularPointsOnly ==
  (probDim = 3 /\ ~probAxi) =>
    \A e \in AllEntries :
      MeshRegularColl(nElt, nEltColl, e.elt)[RowOf(e) \div 3] = 1

\* C24: bemintreg3ddiag processes a collocation point only if its RegularColl
\* is 1; in subset mode, with T requested, no statement addresses a slot that
\* inddiag maps for a selected point that is not regular for the element.
C24_NonRegularPointsUntouched ==
  TmatOut =>
    \A e \in AllEntries :
      \A i \in DOMAIN sel.uniquescolli :
        RegularColl[sel.uniquescolli[i]] # 1 =>
          \A c \in 0..8, g \in 0..(nGrSet - 1) :
            sel.inddiag[9 * i + c] # -1 => e.slot # SubsetSlot(g, 9 * i + c)

\* ---------------------------------------------------------------- C25
\* One step of an integrator in the order of the loop body: the kernel is
\* evaluated after the offset, rotated after the evaluation, summed after the
\* rotation; only the rotation changes the rotated kernel (which is dropped
\* when the routine is left), only the summation changes U and T, and it sums the kernel evaluated for the current pair and
\* rotated with the normal of the current quadrature point.
InLoopOrder ==
  /\ pc' = "sing_eval" => pc = "sing_check"
  /\ pc' = "sing_rotate" => pc = "sing_eval"
  /\ pc' = "sing_sum" => pc = "sing_rotate"
  /\ pc' = "reg_eval" => pc = "reg_xi"
  /\ pc' = "reg_rotate" => pc = "reg_eval"
  /\ pc' = "reg_sum" => pc = "reg_rotate"
  /\ rot' # rot =>
       \/ pc \in {"sing_rotate", "reg_rotate"} /\ rot' = <<iColl, iXi, iXi>>
       \/ pc' \in {"bemmat", "mex_catch"} /\ rot' = None
  /\ buffers' # buffers => pc \in {"sing_sum", "reg_sum"} /\ rot = <<iColl, iXi, iXi>>

\* C25: in every integrator the steps of a (collocation point, quadrature
\* point) pair run in the order offset, kernel evaluation, rotation with the
\* normal of that quadrature point, accumulation; the rotation is done once
\* for each quadrature point, and every accumulated term uses the kernel
\* evaluated for its own collocation point and quadrature point and, where it
\* is a rotated kernel, rotated with the normal of that quadrature point.
C25_OffsetEvalRotateSum ==
  /\ [][InLoopOrder]_vars
  /\ [](\A e \in AllEntries :
          /\ e.at[1] = RowOf(e) \div nColDof /\ e.at[2] = e.xi
          /\ Len(e.at) = 3 => e.at[3] = e.xi)

\* Terms of the second quadrature point of a collocation point were summed in
\* the 3D routine, and in the 2D routine.
C25_Witness ==
  /\ pc = "reg_xi" /\ iXi = 2
  /\ \E e \in AllEntries : e.xi = 1 /\ e.at = <<iColl, 1, 1>>

\* ------------------------------------------- claims on the argument reads
\* C23: once the argument count of an Integrate routine is accepted, every
\* argument the routine reads lies inside the argument array: the index of
\* the last argument read is smaller than nrhs.
C23_ReadsInsideArguments ==
  pc \in {"user_out", "fs_out"} => LastRead(green) < nrhs

\* ----------------------------------------- claims on the index arithmetic
\* C28: the index of every accumulation statement, computed with unsigned
\* int operands, is the mathematical index nDof*nDof*iGrSet +
\* nDof*(colBeg+k) + rowBeg + j with nDof = nColDof*nTotalColl: nothing is
\* lost modulo 2^32.
C28_FlatIndexWithoutWraparound ==
  (pc = "ix_entry" /\ flat.iGrSet > 0) =>
    \A e \in DOMAIN flat.ind :
      flat.ind[e] =
        IndexOf(MaxLimbs, WideMul(Wide(flat.nColDof), Wide(flat.nTotalColl)),
                Wide(flat.nColDof), Wide(flat.iColl), Wide(flat.EltCollIndex),
                Wide(flat.iGrSet - 1), Wide(e[1]), Wide(e[2]))

====
